---- MODULE Spec2Model ----
(***************************************************************************)
(* Model of the Telegraph client's resilient request pipeline              *)
(* (src/client.go): the retry loop of Client.doRequest, the backoff delay  *)
(* of Client.calculateDelay and the token bucket the client is built with. *)
(***************************************************************************)
EXTENDS Integers, Sequences, FiniteSets, TLC

(***************************************************************************)
(* Arithmetic.  time.Duration is an int64 count of nanoseconds.  TLC's     *)
(* integers are 32 bits wide, so an int64 is held as its two's-complement  *)
(* bit pattern: a sequence of 8 bytes, least significant byte first.       *)
(* Unbounded naturals (used to state what a claim says about the           *)
(* mathematical value) are byte sequences of any length.                   *)
(***************************************************************************)
Radix == 2^8

Width64 == 64 \div 8

Digit(d, i) == IF i <= Len(d) THEN d[i] ELSE 0

RECURSIVE NatNorm(_)
NatNorm(d) ==
    IF Len(d) > 0 /\ d[Len(d)] = 0 THEN NatNorm(SubSeq(d, 1, Len(d) - 1)) ELSE d

RECURSIVE NatOfInt(_)
NatOfInt(n) == IF n = 0 THEN <<>> ELSE <<n % Radix>> \o NatOfInt(n \div Radix)

RECURSIVE NatAddFrom(_, _, _, _)
NatAddFrom(a, b, i, carry) ==
    IF i > Len(a) /\ i > Len(b)
    THEN IF carry = 0 THEN <<>> ELSE <<carry>>
    ELSE LET s == Digit(a, i) + Digit(b, i) + carry
         IN  <<s % Radix>> \o NatAddFrom(a, b, i + 1, s \div Radix)

NatAdd(a, b) == NatAddFrom(a, b, 1, 0)

RECURSIVE NatMulDigitFrom(_, _, _, _)
NatMulDigitFrom(a, m, i, carry) ==
    IF i > Len(a)
    THEN IF carry = 0 THEN <<>> ELSE <<carry>>
    ELSE LET s == a[i] * m + carry
         IN  <<s % Radix>> \o NatMulDigitFrom(a, m, i + 1, s \div Radix)

RECURSIVE NatMulFrom(_, _, _)
NatMulFrom(a, b, j) ==
    IF j > Len(b)
    THEN <<>>
    ELSE NatAdd(NatMulDigitFrom(a, b[j], 1, 0), <<0>> \o NatMulFrom(a, b, j + 1))

NatMul(a, b) == NatNorm(NatMulFrom(a, b, 1))

RECURSIVE NatCmpFrom(_, _, _)
NatCmpFrom(a, b, i) ==
    IF i = 0 THEN 0
    ELSE IF a[i] < b[i] THEN -1
    ELSE IF a[i] > b[i] THEN 1
    ELSE NatCmpFrom(a, b, i - 1)

\* -1, 0 or 1 as a < b, a = b or a > b
NatCmp(a, b) ==
    LET x == NatNorm(a)
        y == NatNorm(b)
    IN  IF Len(x) < Len(y) THEN -1
        ELSE IF Len(x) > Len(y) THEN 1
        ELSE NatCmpFrom(x, y, Len(x))

\* the low 64 bits of a natural: what an int64 keeps of a result
Wrap64(d) == [i \in 1..Width64 |-> Digit(d, i)]

Not64(x) == [i \in 1..Width64 |-> (Radix - 1) - x[i]]

Neg64(x) == Wrap64(NatAdd(Not64(x), <<1>>))

\* the int64 with the value of the (small) integer n
I64(n) == IF n >= 0 THEN Wrap64(NatOfInt(n)) ELSE Neg64(Wrap64(NatOfInt(-n)))

IsNeg64(x) == x[Width64] >= Radix \div 2

\* int64 multiplication: the product wraps modulo 2^64
Mul64(x, y) == Wrap64(NatMulFrom(x, y, 1))

\* signed comparison x > y of two int64
Gt64(x, y) ==
    IF IsNeg64(x) # IsNeg64(y) THEN IsNeg64(y) ELSE NatCmp(x, y) > 0

Le64(x, y) == ~Gt64(x, y)

\* time.Duration(1 << n) for a shift count n >= 0: Go shifts an int64 and
\* yields 0 once the count reaches the width
Shl64(n) ==
    IF n >= 64
    THEN I64(0)
    ELSE [i \in 1..Width64 |-> IF i = (n \div 8) + 1 THEN 2^(n % 8) ELSE 0]

(***************************************************************************)
(* Signed numbers of unbounded size, [neg, mag], for the mathematical      *)
(* value of a formula of the specification.                                *)
(***************************************************************************)
BigOf64(x) ==
    IF IsNeg64(x)
    THEN [neg |-> TRUE, mag |-> NatNorm(Neg64(x))]
    ELSE [neg |-> FALSE, mag |-> NatNorm(x)]

BigOfInt(n) ==
    IF n < 0 THEN [neg |-> TRUE, mag |-> NatOfInt(-n)]
    ELSE [neg |-> FALSE, mag |-> NatOfInt(n)]

BigMul(x, y) ==
    LET m == NatMul(x.mag, y.mag)
    IN  [neg |-> (x.neg # y.neg) /\ m # <<>>, mag |-> m]

RECURSIVE NatSubFrom(_, _, _, _)
\* a - b for a >= b
NatSubFrom(a, b, i, borrow) ==
    IF i > Len(a)
    THEN <<>>
    ELSE LET s == a[i] - Digit(b, i) - borrow
         IN  IF s < 0
             THEN <<s + Radix>> \o NatSubFrom(a, b, i + 1, 1)
             ELSE <<s>> \o NatSubFrom(a, b, i + 1, 0)

BigNeg(x) == [neg |-> ~x.neg /\ x.mag # <<>>, mag |-> x.mag]

BigAdd(x, y) ==
    IF x.neg = y.neg
    THEN [neg |-> x.neg, mag |-> NatNorm(NatAdd(x.mag, y.mag))]
    ELSE IF NatCmp(x.mag, y.mag) = 0
    THEN [neg |-> FALSE, mag |-> <<>>]
    ELSE IF NatCmp(x.mag, y.mag) > 0
    THEN [neg |-> x.neg, mag |-> NatNorm(NatSubFrom(x.mag, y.mag, 1, 0))]
    ELSE [neg |-> y.neg, mag |-> NatNorm(NatSubFrom(y.mag, x.mag, 1, 0))]

RECURSIVE BigPow(_, _)
BigPow(x, k) ==
    IF k = 0 THEN BigOfInt(1)
    ELSE LET h == BigPow(x, k \div 2)
         IN  IF k % 2 = 0 THEN BigMul(h, h) ELSE BigMul(BigMul(h, h), x)

\* -1, 0 or 1 as x < y, x = y or x > y
BigCmp(x, y) ==
    IF x.neg /\ ~y.neg THEN -1
    ELSE IF ~x.neg /\ y.neg THEN 1
    ELSE IF x.neg THEN NatCmp(y.mag, x.mag)
    ELSE NatCmp(x.mag, y.mag)

(***************************************************************************)
(* Floating-point configuration values (RetryConfig.Multiplier,            *)
(* rate.Limit) are held as exact fractions [num, den], den > 0.            *)
(***************************************************************************)
Frac(n, d) == [num |-> n, den |-> d]

\* Go's conversion of a float64 to an integer type: the fraction is dropped
\* (truncation towards zero)
IntOfFloat(f) ==
    IF f.num >= 0 THEN f.num \div f.den ELSE -((-f.num) \div f.den)

(***************************************************************************)
(* Bounds of the model.                                                    *)
(***************************************************************************)
\* largest RetryConfig.MaxRetries of a client of the request pipeline
MaxRetriesBound == 2

\* dispatches (calls of doRequest) issued through the client
MaxDispatches == 3

\* the limiter's clock counts ticks; one token accrues every TicksPerToken
\* ticks, so a tick lasts 1 / (R * TicksPerToken) seconds at R tokens/second
TicksPerToken == 2

\* the clock stops at MaxTime
MaxTime == 4

\* largest attempt number given to calculateDelay on its own
MaxAttempt == 66

(***************************************************************************)
(* Retry configuration (src/client.go:58-72).                              *)
(***************************************************************************)
Millisecond == I64(1000000)

Second == Mul64(I64(1000), Millisecond)

RetryConfig(maxRetries, initialDelay, maxDelay, multiplier) ==
    [MaxRetries |-> maxRetries, InitialDelay |-> initialDelay,
     MaxDelay |-> maxDelay, Multiplier |-> multiplier]

DefaultRetryConfig ==
    RetryConfig(3, Mul64(I64(100), Millisecond), Mul64(I64(5), Second), Frac(2, 1))

\* uint(attempt-1): a negative int converts to a count beyond any width
ShiftCount(attempt) == IF attempt >= 1 THEN attempt - 1 ELSE 64

\* variant: the comparison with MaxDelay is left out
calculateDelayUnclamped(c, attempt) ==
    Mul64(Mul64(c.InitialDelay, Shl64(ShiftCount(attempt))),
          I64(IntOfFloat(c.Multiplier)))

calculateDelay(c, attempt) ==
    LET delay == Mul64(Mul64(c.InitialDelay, Shl64(ShiftCount(attempt))),
                       I64(IntOfFloat(c.Multiplier)))
    IN  IF Gt64(delay, c.MaxDelay) THEN c.MaxDelay ELSE delay

shouldRetry(err) == TRUE

\* variant: status 500 itself is not retried
shouldRetryStatusAbove500(statusCode) == statusCode > 500 \/ statusCode = 429

\* variant: every 4xx is retried too
shouldRetryStatusFrom400(statusCode) == statusCode >= 400

\* variant: status 429 is not retried
shouldRetryStatus5xxOnly(statusCode) == statusCode >= 500

shouldRetryStatus(statusCode) == statusCode >= 500 \/ statusCode = 429

(***************************************************************************)
(* State.                                                                  *)
(***************************************************************************)
\* the goroutines that call the client
Procs == {"p1", "p2"}

VARIABLES
    cfg,         \* Client.retryConfig
    lim,         \* Client.rateLimiter: the token bucket and its configuration
    retired,     \* the limiters WithRateLimit has replaced in c.rateLimiter
                 \* while goroutines were inside their Wait
    now,         \* the limiter's clock, in ticks since the client was built
    started,     \* dispatches begun so far
    acquired,    \* calls of rateLimiter.Wait that returned nil so far
    pc,          \* per goroutine: where it stands in doRequest
    ctxDone,     \* per goroutine: ctx.Done() of its dispatch is closed
    attempt,     \* per goroutine: the loop variable of doRequest
    delay,       \* per goroutine: the delay of the pending backoff
    timerFired,  \* per goroutine: time.After(delay) has delivered
    calls,       \* per goroutine: calls of httpClient.Do in this dispatch
    taken,       \* per goroutine: tokens this dispatch got from the limiter
    history,     \* per goroutine: what httpClient.Do returned, call by call
    lastErr,     \* per goroutine: the variable lastErr of doRequest
    result,      \* per goroutine: what doRequest returned
    queued,      \* per goroutine: its place in the limiter's queue when its
                 \* Wait suspended, 0 when it did not suspend
    attemptArg,  \* calculateDelay on its own: the attempt number given
    delayOut,    \* calculateDelay on its own: the delay returned
    delayPrev,   \* calculateDelay on its own: the delay returned before
    method,      \* per goroutine: the API method it called, "" before the call
    req,         \* per goroutine: the request value given to the API method
    apiRet,      \* per goroutine: what the API method returned
    parseIn,     \* parseResponse on its own: the response given
    parseOut,    \* parseResponse on its own: the error returned
    htmlDoc,     \* ConvertHTMLToPage on its own: the parsed document and options
    convOut,     \* ConvertHTMLToPage on its own: what it returned
    valIn,       \* Validate on its own: the method and its request
    valOut,      \* Validate on its own: the error returned
    nodeIn,      \* a Node that is marshalled and unmarshalled
    nodeOut,     \* the JSON text's value and the Node decoded from it
    baseURL,     \* Client.baseURL
    httpClient,  \* Client.httpClient
    bodyBuf,     \* per goroutine: the variable body of doRequest (unread bytes)
    sent,        \* per goroutine: the requests handed to httpClient.Do
    closes       \* per goroutine: calls of Body.Close, per entry of history

\* the fields of the client that the options of NewClient set
configVars == <<cfg, baseURL, httpClient>>

clientVars == <<configVars, lim, retired, now, started, acquired>>

procVars ==
    <<pc, ctxDone, attempt, delay, timerFired, calls, sent, taken, history,
      bodyBuf, closes, lastErr, result, queued>>

delayVars == <<attemptArg, delayOut, delayPrev>>

apiVars == <<method, req, apiRet>>

parseVars == <<parseIn, parseOut>>

convVars == <<htmlDoc, convOut>>

pureVars == <<valIn, valOut, nodeIn, nodeOut>>

\* what a step of doRequest leaves alone
sideVars == <<delayVars, apiVars, parseVars, convVars, pureVars>>

vars == <<clientVars, procVars, delayVars, apiVars, parseVars, convVars, pureVars>>

(***************************************************************************)
(* Values.                                                                 *)
(***************************************************************************)
\* what one call of httpClient.Do returns: a response with a status, a
\* transport failure, or the failure of a call whose context is done
Resp(s) == [kind |-> "resp", status |-> s]

NetErr == [kind |-> "neterr", status |-> 0]

\* the errors of a context that is done: context.Canceled (cancel() was
\* called) and context.DeadlineExceeded (the deadline passed)
CtxErrors == {"canceled", "deadlineExceeded"}

\* Do fails with the error e of its context
CtxErr(e) == [kind |-> "ctxerr", status |-> 0, err |-> e]

StatusCodes == {200, 400, 429, 500}

ServerOutcomes == {Resp(s) : s \in StatusCodes} \cup {NetErr}

\* an error value; "at" is the attempt that produced it (each attempt
\* builds a new error value)
Err(kind, status, at) == [kind |-> kind, status |-> status, at |-> at]

NoErr == Err("nil", 0, 0)

\* what doRequest returns: (resp, nil) or (nil, err)
NoResult == [kind |-> "none", status |-> 0, attempts |-> 0, cause |-> NoErr]

\* return resp, nil
RespResult(s) == [kind |-> "resp", status |-> s, attempts |-> 0, cause |-> NoErr]

\* return nil, ctx.Err(): the error e itself, not wrapped
CtxResult(e) ==
    [kind |-> "ctx", status |-> 0, attempts |-> 0, cause |-> Err(e, 0, 0)]

\* fmt.Errorf("failed to create request: %w", err)
CreateFailedResult(e) ==
    [kind |-> "create", status |-> 0, attempts |-> 0,
     cause |-> [kind |-> "parse", status |-> 0, at |-> 0, err |-> e]]

\* fmt.Errorf("rate limiting failed: %w", err)
RateLimitResult(why) ==
    [kind |-> "ratelimit", status |-> 0, attempts |-> 0, cause |-> Err(why, 0, 0)]

\* fmt.Errorf("request failed after %d attempts: %w", n, lastErr)
ExhaustedResult(n, err) ==
    [kind |-> "exhausted", status |-> 0, attempts |-> n, cause |-> err]

(***************************************************************************)
(* The Rate Governor (the limiter NewClient and WithRateLimit build; its   *)
(* code is not part of the repository and it is modelled as the token      *)
(* bucket of the specification, section 4.2): capacity burst, one token    *)
(* accrues every TicksPerToken ticks, it starts full.  Tokens are counted  *)
(* in units of 1/TicksPerToken token: one unit accrues per tick.  acquire  *)
(* suspends the caller until a token is available and then takes it; the   *)
(* suspended callers are admitted in the order of their arrival.           *)
(***************************************************************************)
NewLimiter(limit, burst) ==
    [limit |-> limit, burst |-> burst, tokens |-> burst * TicksPerToken,
     last |-> 0, waiters |-> <<>>]

\* variant: the burst is rounded up past rps
WithRateLimitRounded(rps) == NewLimiter(rps, IntOfFloat(rps) + 1)

\* c.rateLimiter = rate.NewLimiter(rps, int(rps))
WithRateLimit(rps) == NewLimiter(rps, IntOfFloat(rps))

\* variant: the refill is not capped at the capacity
AdvanceUncapped(l, t) == l.tokens + (t - l.last)

\* the lazy refill: the tokens the bucket holds at time t, capped at the
\* capacity
Advance(l, t) ==
    LET tokens == l.tokens + (t - l.last)
    IN  IF tokens > l.burst * TicksPerToken THEN l.burst * TicksPerToken ELSE tokens

\* the queue q without the caller p
Remove(q, p) == SelectSeq(q, LAMBDA x : x # p)

\* the place of p in the queue q, 0 when it is not in it
Place(q, p) ==
    IF \E i \in 1..Len(q) : q[i] = p
    THEN CHOOSE i \in 1..Len(q) : q[i] = p
    ELSE 0

\* at least one token is available at time t and p is the next to be
\* admitted: nobody is suspended, or p is the one who has waited longest
Admits(l, p, t) ==
    /\ Advance(l, t) >= TicksPerToken
    /\ l.waiters = <<>> \/ Head(l.waiters) = p

\* the bucket is decremented by one token for p
Take(l, p, t) ==
    [l EXCEPT !.tokens = Advance(l, t) - TicksPerToken,
              !.last = t,
              !.waiters = Remove(@, p)]

\* p is suspended behind those who wait already
Enqueue(l, p, t) ==
    [l EXCEPT !.tokens = Advance(l, t),
              !.last = t,
              !.waiters = Append(@, p)]

\* variant: the waiter leaves the queue and a token goes with it
LeaveTakesToken(l, p) ==
    [l EXCEPT !.tokens = IF @ >= TicksPerToken THEN @ - TicksPerToken ELSE 0,
              !.waiters = Remove(@, p)]

\* cancellation while waiting: the waiter is removed, no token is consumed
Leave(l, p) == [l EXCEPT !.waiters = Remove(@, p)]

\* variant: a caller that arrives is put in front of those who wait
AcquireJumpsQueue(l, p, t, cancelled) ==
    IF cancelled THEN [out |-> "cancelled", lim |-> l]
    ELSE IF Admits(l, p, t) THEN [out |-> "acquired", lim |-> Take(l, p, t)]
    ELSE [out |-> "suspended",
          lim |-> [Enqueue(l, p, t) EXCEPT !.waiters = <<p>> \o l.waiters]]

\* variant: the cancellation signal is looked at only while suspended
AcquireIgnoresCancel(l, p, t, cancelled) ==
    IF Admits(l, p, t) THEN [out |-> "acquired", lim |-> Take(l, p, t)]
    ELSE [out |-> "suspended", lim |-> Enqueue(l, p, t)]

\* acquire, up to its return or its suspension, for a caller whose
\* cancellation signal has fired or not: a signal that has fired aborts it
\* (sections 4.1 and 5: every suspension point observes the signal and
\* aborts rather than completing the operation)
Acquire(l, p, t, cancelled) ==
    IF cancelled THEN [out |-> "cancelled", lim |-> l]
    ELSE IF Admits(l, p, t) THEN [out |-> "acquired", lim |-> Take(l, p, t)]
    ELSE [out |-> "suspended", lim |-> Enqueue(l, p, t)]

\* the time by which the waiter p is admitted if nobody ahead of it
\* leaves: one token accrues every TicksPerToken ticks and it is the
\* Place-th to be served
Due(l, p, t) == t + Place(l.waiters, p) * TicksPerToken - Advance(l, t)

(***************************************************************************)
(* The request doRequest builds (src/client.go:133-163).  The JSON text of *)
(* the request data is a sequence of chunks: the opening brace, one chunk  *)
(* per member that json.Marshal writes, the closing brace.  The variable   *)
(* body of doRequest is nil or a *bytes.Buffer, of which only the unread   *)
(* chunks count: whoever reads from it moves its read offset.              *)
(***************************************************************************)
\* the fields of the request struct of method m (src/types.go:78-313):
\* Go name, JSON key, kind of value, omitempty
RequestFields(m) ==
    CASE m = "CreateAccount" ->
            <<<<"ShortName", "short_name", "string", FALSE>>,
              <<"AuthorName", "author_name", "string", TRUE>>,
              <<"AuthorURL", "author_url", "string", TRUE>>>>
      [] m = "EditAccountInfo" ->
            <<<<"AccessToken", "access_token", "string", FALSE>>,
              <<"ShortName", "short_name", "string", TRUE>>,
              <<"AuthorName", "author_name", "string", TRUE>>,
              <<"AuthorURL", "author_url", "string", TRUE>>>>
      [] m = "GetAccountInfo" ->
            <<<<"AccessToken", "access_token", "string", FALSE>>,
              <<"Fields", "fields", "slice", TRUE>>>>
      [] m = "CreatePage" ->
            <<<<"AccessToken", "access_token", "string", FALSE>>,
              <<"Title", "title", "string", FALSE>>,
              <<"AuthorName", "author_name", "string", TRUE>>,
              <<"AuthorURL", "author_url", "string", TRUE>>,
              <<"Content", "content", "slice", FALSE>>,
              <<"ReturnContent", "return_content", "bool", TRUE>>>>
      [] m = "EditPage" ->
            <<<<"AccessToken", "access_token", "string", FALSE>>,
              <<"Path", "path", "string", FALSE>>,
              <<"Title", "title", "string", FALSE>>,
              <<"AuthorName", "author_name", "string", TRUE>>,
              <<"AuthorURL", "author_url", "string", TRUE>>,
              <<"Content", "content", "slice", FALSE>>,
              <<"ReturnContent", "return_content", "bool", TRUE>>>>
      [] m = "GetPage" ->
            <<<<"Path", "path", "string", FALSE>>,
              <<"ReturnContent", "return_content", "bool", TRUE>>>>
      [] m = "GetPageList" ->
            <<<<"AccessToken", "access_token", "string", FALSE>>,
              <<"Offset", "offset", "int", TRUE>>,
              <<"Limit", "limit", "int", TRUE>>>>
      [] m = "GetViews" ->
            <<<<"Path", "path", "string", FALSE>>,
              <<"Year", "year", "int", TRUE>>,
              <<"Month", "month", "int", TRUE>>,
              <<"Day", "day", "int", TRUE>>,
              <<"Hour", "hour", "int", TRUE>>>>
      [] OTHER -> <<>>

\* encoding/json: the values that omitempty leaves out
isEmptyValue(v, kind) ==
    CASE kind = "int" -> v = 0
      [] kind = "bool" -> v = FALSE
      [] OTHER -> Len(v) = 0

Chunk(key, val) == [key |-> key, val |-> val]

\* json.Marshal(data) for the request r of method m
Marshal(m, r) ==
    LET fs == RequestFields(m)
        written == SelectSeq(fs, LAMBDA f : ~(f[4] /\ isEmptyValue(r[f[1]], f[3])))
    IN  <<Chunk("{", "")>>
            \o [i \in 1..Len(written) |-> Chunk(written[i][2], r[written[i][1]])]
            \o <<Chunk("}", "")>>

\* var body io.Reader, and bytes.NewBuffer(jsonData)
NilReader == [isNil |-> TRUE, unread |-> <<>>]

NewBuffer(jsonData) == [isNil |-> FALSE, unread |-> jsonData]

\* the data the API method hands to doRequest: GetPage sends its request in
\* the query and passes nil, as does a caller that names no method
BodyOf(m, r) ==
    IF m \in {"", "GetPage"} THEN NilReader ELSE NewBuffer(Marshal(m, r))

\* the API methods (src/client.go:266-502)
Methods ==
    {"CreateAccount", "EditAccountInfo", "GetAccountInfo", "CreatePage",
     "EditPage", "GetPage", "GetPageList", "GetViews"}

\* the path of a page, and the paths given to GetPage: none, and one that
\* holds a space, a slash and a letter outside ASCII as well
PagePath == <<"P", "-", "1">>

PagePaths == {<<>>, PagePath \o <<" ", "/", "\\u00e9">>}

(***************************************************************************)
(* Characters.  A string whose bytes matter is the sequence of its         *)
(* characters: a printable character of ASCII is written as itself, any    *)
(* other character and a byte that belongs to no character as the escape   *)
(* Go writes for it.  UTF8 gives the bytes of each, which is what len(),   *)
(* the comparison of strings, url.QueryEscape and url.Parse work on.       *)
(***************************************************************************)
\* the printable characters of ASCII in the order of their codes, from the
\* space (0x20) to "~" (0x7e); the grave accent (0x60) is written as its
\* escape
Printable ==
    <<" ", "!", "\"", "#", "$", "%", "&", "'", "(", ")", "*", "+", ",", "-",
      ".", "/", "0", "1", "2", "3", "4", "5", "6", "7", "8", "9", ":", ";",
      "<", "=", ">", "?", "@", "A", "B", "C", "D", "E", "F", "G", "H", "I",
      "J", "K", "L", "M", "N", "O", "P", "Q", "R", "S", "T", "U", "V", "W",
      "X", "Y", "Z", "[", "\\", "]", "^", "_", "\\x60", "a", "b", "c", "d", "e",
      "f", "g", "h", "i", "j", "k", "l", "m", "n", "o", "p", "q", "r", "s",
      "t", "u", "v", "w", "x", "y", "z", "{", "|", "}", "~">>

\* the NUL byte and DEL, two ASCII control characters
NulByte == "\\x00"

ControlByte == "\\x7f"

\* e and E with an acute accent, the small, the final and the capital sigma,
\* the long s and the Kelvin sign
SmallEAcute == "\\u00e9"

CapitalEAcute == "\\u00c9"

SmallSigma == "\\u03c3"

FinalSigma == "\\u03c2"

CapitalSigma == "\\u03a3"

LongS == "\\u017f"

KelvinSign == "\\u212a"

\* the rune U+FFFD, and a byte that is not valid UTF-8
ReplacementChar == "\\ufffd"

InvalidByte == "\\xff"

\* the bytes of the characters that are not printable ASCII
OtherBytes ==
    <<<<NulByte, <<0>>>>, <<"\t", <<9>>>>, <<"\n", <<10>>>>, <<"\f", <<12>>>>,
      <<"\r", <<13>>>>, <<ControlByte, <<127>>>>,
      <<CapitalEAcute, <<195, 137>>>>, <<SmallEAcute, <<195, 169>>>>,
      <<LongS, <<197, 191>>>>, <<CapitalSigma, <<206, 163>>>>,
      <<FinalSigma, <<207, 130>>>>, <<SmallSigma, <<207, 131>>>>,
      <<KelvinSign, <<226, 132, 170>>>>, <<ReplacementChar, <<239, 191, 189>>>>,
      <<InvalidByte, <<255>>>>>>

Chars ==
    {Printable[i] : i \in 1..Len(Printable)}
        \cup {OtherBytes[i][1] : i \in 1..Len(OtherBytes)}

\* []byte(c) for each character c
UTF8 ==
    [c \in Chars |->
        IF \E i \in 1..Len(OtherBytes) : OtherBytes[i][1] = c
        THEN OtherBytes[CHOOSE i \in 1..Len(OtherBytes) : OtherBytes[i][1] = c][2]
        ELSE <<31 + CHOOSE i \in 1..Len(Printable) : Printable[i] = c>>]

\* the characters of more than one byte, by the number of their bytes
TwoByteChars == {c \in Chars : Len(UTF8[c]) = 2}

ThreeByteChars == {c \in Chars : Len(UTF8[c]) = 3}

\* the characters and bytes outside ASCII (b >= utf8.RuneSelf), and the
\* ASCII control characters (b < ' ' || b == 0x7f)
NonASCII == {c \in Chars : UTF8[c][1] >= 128}

ControlChars == {c \in Chars : UTF8[c][1] < 32 \/ UTF8[c][1] = 127}

\* len(s): the number of bytes of s
ByteLen(s) ==
    Len(s) + Len(SelectSeq(s, LAMBDA c : c \in TwoByteChars))
           + 2 * Len(SelectSeq(s, LAMBDA c : c \in ThreeByteChars))

\* []byte(s)
RECURSIVE BytesOf(_)
BytesOf(s) == IF s = <<>> THEN <<>> ELSE UTF8[Head(s)] \o BytesOf(Tail(s))

LowerLetters ==
    {"a", "b", "c", "d", "e", "f", "g", "h", "i", "j", "k", "l", "m", "n",
     "o", "p", "q", "r", "s", "t", "u", "v", "w", "x", "y", "z"}

UpperLetters ==
    {"A", "B", "C", "D", "E", "F", "G", "H", "I", "J", "K", "L", "M", "N",
     "O", "P", "Q", "R", "S", "T", "U", "V", "W", "X", "Y", "Z"}

Letters == LowerLetters \cup UpperLetters

Digits == {"0", "1", "2", "3", "4", "5", "6", "7", "8", "9"}

HexLetters == {"a", "b", "c", "d", "e", "f", "A", "B", "C", "D", "E", "F"}

\* "0123456789ABCDEF"
upperhex ==
    <<"0", "1", "2", "3", "4", "5", "6", "7", "8", "9", "A", "B", "C", "D",
      "E", "F">>

\* the escape "%XX" of the byte b
EscapeByte(b) == <<"%", upperhex[(b \div 16) + 1], upperhex[(b % 16) + 1]>>

RECURSIVE EscapeBytes(_)
EscapeBytes(bs) ==
    IF bs = <<>> THEN <<>> ELSE EscapeByte(Head(bs)) \o EscapeBytes(Tail(bs))

\* url.QueryEscape(s): a letter, a digit, "-", "_", "." and "~" stand for
\* themselves, a space becomes "+", every other byte an escape "%XX"
RECURSIVE QueryEscape(_)
QueryEscape(s) ==
    IF s = <<>> THEN <<>>
    ELSE (IF Head(s) \in Letters \cup Digits \cup {"-", "_", ".", "~"}
          THEN <<Head(s)>>
          ELSE IF Head(s) = " " THEN <<"+">>
          ELSE EscapeBytes(UTF8[Head(s)]))
         \o QueryEscape(Tail(s))

\* the endpoint the API method names, and for GetPage params.Encode()
Endpoint(m, r) ==
    CASE m = "CreateAccount" -> <<"createAccount">>
      [] m = "EditAccountInfo" -> <<"editAccountInfo">>
      [] m = "GetAccountInfo" -> <<"getAccountInfo">>
      [] m = "CreatePage" -> <<"createPage">>
      [] m = "EditPage" -> <<"editPage">>
      [] m = "GetPage" ->
            <<"getPage", "?", "path=">> \o QueryEscape(r.Path)
                \o (IF r.ReturnContent THEN <<"&", "return_content=true">>
                    ELSE <<>>)
      [] m = "GetPageList" -> <<"getPageList">>
      [] m = "GetViews" -> <<"getViews">>
      [] OTHER -> <<>>

(***************************************************************************)
(* url.Parse, which http.NewRequestWithContext (src/client.go:155) calls   *)
(* on the URL.  A URL is the sequence of the characters of its text; the   *)
(* endpoint that doRequest appends is a sequence of words, each a run of   *)
(* letters, digits and valid escapes, round "?", "=" and "&".  An error is *)
(* its message, "" is nil.                                                 *)
(***************************************************************************)
\* the characters that stand for themselves in a host name, besides
\* letters and digits
HostPunctuation ==
    {"!", "$", "&", "'", "(", ")", "*", "+", ",", ";", "=", ":", "[", "]",
     "<", ">", "\"", "-", "_", ".", "~"}

\* the characters a userinfo may hold, besides letters and digits
UserinfoPunctuation ==
    {"-", ".", "_", ":", "~", "!", "$", "&", "'", "(", ")", "*", "+", ",",
     ";", "=", "%", "@"}

\* the bytes an escape inside an IPv6 zone may stand for: those of a host
\* name and the space
ZoneBytes ==
    (32..34) \cup {36} \cup (38..46) \cup (48..62) \cup (65..91) \cup {93} \cup {95} \cup (97..122) \cup {126}

HexValue(c) ==
    IF c \in Digits
    THEN CHOOSE n \in 0..9 :
            <<"0", "1", "2", "3", "4", "5", "6", "7", "8", "9">>[n + 1] = c
    ELSE [a |-> 10, b |-> 11, c |-> 12, d |-> 13, e |-> 14, f |-> 15,
          A |-> 10, B |-> 11, C |-> 12, D |-> 13, E |-> 14, F |-> 15][c]

\* strings.Index(s, c) and strings.LastIndex(s, c) for a character c, from
\* 1; 0 when s does not hold c
IndexOf(s, c) ==
    IF \E i \in 1..Len(s) : s[i] = c
    THEN CHOOSE i \in 1..Len(s) : s[i] = c /\ \A j \in 1..(i - 1) : s[j] # c
    ELSE 0

LastIndexOf(s, c) ==
    IF \E i \in 1..Len(s) : s[i] = c
    THEN CHOOSE i \in 1..Len(s) : s[i] = c /\ \A j \in (i + 1)..Len(s) : s[j] # c
    ELSE 0

\* s[:i-1] and s[i+1:] around the first c, as strings.Cut gives them
Before(s, c) == IF IndexOf(s, c) = 0 THEN s ELSE SubSeq(s, 1, IndexOf(s, c) - 1)

After(s, c) ==
    IF IndexOf(s, c) = 0 THEN <<>> ELSE SubSeq(s, IndexOf(s, c) + 1, Len(s))

HasPrefix(s, pre) == Len(s) >= Len(pre) /\ SubSeq(s, 1, Len(pre)) = pre

\* the first of the messages es that is an error
FirstErr(es) ==
    IF \E i \in 1..Len(es) : es[i] # ""
    THEN es[CHOOSE i \in 1..Len(es) :
               es[i] # "" /\ \A j \in 1..(i - 1) : es[j] = ""]
    ELSE ""

\* unescape(s, mode): the error of the first character that is one
unescape(s, mode) ==
    LET bad(i) ==
            IF s[i] = "%"
            THEN IF \/ i + 2 > Len(s)
                    \/ s[i + 1] \notin Digits \cup HexLetters
                    \/ s[i + 2] \notin Digits \cup HexLetters
                 THEN "invalid URL escape %q"
                 ELSE IF /\ mode = "host"
                         /\ HexValue(s[i + 1]) < 8
                         /\ <<s[i + 1], s[i + 2]>> # <<"2", "5">>
                 THEN "invalid URL escape %q"
                 ELSE IF /\ mode = "zone"
                         /\ <<s[i + 1], s[i + 2]>> # <<"2", "5">>
                         /\ 16 * HexValue(s[i + 1]) + HexValue(s[i + 2])
                               \notin ZoneBytes
                 THEN "invalid URL escape %q"
                 ELSE ""
            ELSE IF /\ mode \in {"host", "zone"}
                    /\ s[i] \notin NonASCII
                    /\ s[i] \notin Letters \cup Digits \cup HostPunctuation
            THEN "invalid character %q in host name"
            ELSE ""
    IN  FirstErr([i \in 1..Len(s) |-> bad(i)])

\* validOptionalPort(port): "" or ":" and digits
validOptionalPort(port) ==
    \/ port = <<>>
    \/ /\ port[1] = ":"
       /\ \A i \in 2..Len(port) : port[i] \in Digits

\* parseHost(host)
parseHost(host) ==
    IF HasPrefix(host, <<"[">>)
    THEN LET i == LastIndexOf(host, "]")
             zone == IF \E z \in 1..(i - 3) :
                           SubSeq(host, z, z + 2) = <<"%", "2", "5">>
                     THEN CHOOSE z \in 1..(i - 3) :
                             /\ SubSeq(host, z, z + 2) = <<"%", "2", "5">>
                             /\ \A y \in 1..(z - 1) :
                                   SubSeq(host, y, y + 2) # <<"%", "2", "5">>
                     ELSE 0
         IN  IF i = 0 THEN "missing ']' in host"
             ELSE IF ~validOptionalPort(SubSeq(host, i + 1, Len(host)))
             THEN "invalid port %q after host"
             ELSE IF zone > 0
             THEN FirstErr(<<unescape(SubSeq(host, 1, zone - 1), "host"),
                             unescape(SubSeq(host, zone, i - 1), "zone"),
                             unescape(SubSeq(host, i, Len(host)), "host")>>)
             ELSE unescape(host, "host")
    ELSE IF /\ LastIndexOf(host, ":") > 0
            /\ ~validOptionalPort(SubSeq(host, LastIndexOf(host, ":"), Len(host)))
    THEN "invalid port %q after host"
    ELSE unescape(host, "host")

\* validUserinfo(s)
validUserinfo(s) ==
    \A i \in 1..Len(s) : s[i] \in Letters \cup Digits \cup UserinfoPunctuation

\* parseAuthority(authority): the host first, then the userinfo
parseAuthority(authority) ==
    LET i == LastIndexOf(authority, "@")
        userinfo == SubSeq(authority, 1, i - 1)
    IN  IF i = 0 THEN parseHost(authority)
        ELSE FirstErr(<<parseHost(SubSeq(authority, i + 1, Len(authority))),
                        IF validUserinfo(userinfo) THEN ""
                        ELSE "net/url: invalid userinfo",
                        unescape(Before(userinfo, ":"), "userPassword"),
                        unescape(After(userinfo, ":"), "userPassword")>>)

\* getScheme(rawURL): the place of the colon that ends the scheme; 0 when
\* the URL has no scheme, -1 for a colon that stands first
getScheme(rawURL) ==
    LET inScheme(i) == \/ rawURL[i] \in Letters
                       \/ i > 1 /\ rawURL[i] \in Digits \cup {"+", "-", "."}
    IN  IF \A i \in 1..Len(rawURL) : inScheme(i) THEN 0
        ELSE LET stop == CHOOSE i \in 1..Len(rawURL) :
                             ~inScheme(i) /\ \A j \in 1..(i - 1) : inScheme(j)
             IN  IF rawURL[stop] # ":" THEN 0
                 ELSE IF stop = 1 THEN -1
                 ELSE stop

\* parse(rawURL, false): the URL without its fragment
parse(rawURL) ==
    LET colon == getScheme(rawURL)
        rest == Before(SubSeq(rawURL, colon + 1, Len(rawURL)), "?")
        authority == Before(SubSeq(rest, 3, Len(rest)), "/")
        path == IF IndexOf(SubSeq(rest, 3, Len(rest)), "/") = 0 THEN <<>>
                ELSE SubSeq(rest, 2 + IndexOf(SubSeq(rest, 3, Len(rest)), "/"),
                            Len(rest))
    IN  IF \E i \in 1..Len(rawURL) : rawURL[i] \in ControlChars
        THEN "net/url: invalid control character in URL"
        ELSE IF colon = -1 THEN "missing protocol scheme"
        ELSE IF ~HasPrefix(rest, <<"/">>) /\ colon > 0 THEN ""
        ELSE IF ~HasPrefix(rest, <<"/">>) /\ IndexOf(Before(rest, "/"), ":") > 0
        THEN "first path segment in URL cannot contain colon"
        ELSE IF /\ colon > 0 \/ ~HasPrefix(rest, <<"/", "/", "/">>)
                /\ HasPrefix(rest, <<"/", "/">>)
        THEN FirstErr(<<parseAuthority(authority), unescape(path, "path")>>)
        ELSE unescape(rest, "path")

\* url.Parse(rawURL): the fragment is cut off and unescaped last
urlParse(rawURL) ==
    FirstErr(<<parse(Before(rawURL, "#")),
               unescape(After(rawURL, "#"), "fragment")>>)

\* url := fmt.Sprintf("%s/%s", c.baseURL, strings.TrimPrefix(endpoint, "/"))
URLOf(base, endpoint) == base \o <<"/">> \o endpoint

\* "https://api.telegra.ph"; the Timeout of an http.Client is in seconds, 0
\* for none
DefaultBaseURL ==
    <<"h", "t", "t", "p", "s", ":", "/", "/", "a", "p", "i", ".", "t", "e",
      "l", "e", "g", "r", "a", ".", "p", "h">>

DefaultHTTPClient == [Timeout |-> 30]

\* strings.TrimSuffix(s, suffix)
TrimSuffix(s, suffix) ==
    IF Len(s) > 0 /\ s[Len(s)] = suffix THEN SubSeq(s, 1, Len(s) - 1) ELSE s

\* what WithBaseURL(u) stores in c.baseURL
WithBaseURL(u) == TrimSuffix(u, "/")

\* what WithHTTPClient(h) stores in c.httpClient
WithHTTPClient(h) == h

\* "https://custom.api.com", the base URL of TestNewClient
CustomBaseURL ==
    <<"h", "t", "t", "p", "s", ":", "/", "/", "c", "u", "s", "t", "o", "m",
      ".", "a", "p", "i", ".", "c", "o", "m">>

\* base URLs given to WithBaseURL: one as the tests give it, one that ends
\* in "/", and some that url.Parse rejects: a control character, ":", a
\* space in the host, an IPv6 host that is not closed, a port that is no
\* number, an escape that is none
BaseURLOptions ==
    {CustomBaseURL, CustomBaseURL \o <<"/">>,
     CustomBaseURL \o <<ControlByte>>,
     <<":">>,
     <<"h", "t", "t", "p", ":", "/", "/", "a", " ", "b">>,
     <<"h", "t", "t", "p", ":", "/", "/", "[", ":", ":", "1">>,
     <<"h", "t", "t", "p", ":", "/", "/", "a", ":", "x">>,
     <<"h", "t", "t", "p", ":", "/", "/", "a", "/", "%", "z", "z">>}

\* "https://other", given to a WithBaseURL that is applied to a client in
\* use
LateBaseURL ==
    <<"h", "t", "t", "p", "s", ":", "/", "/", "o", "t", "h", "e", "r">>

\* bytes that lie behind a string in memory: any, of which the model takes
\* a control character, a letter and a byte outside ASCII
GarbageBytes == {ControlByte, "x", InvalidByte}

\* what a goroutine may read from a string variable that holds old while
\* another goroutine writes new to it without synchronisation: new, or the
\* pointer of one with the length of the other, which is a prefix of the
\* longer string or the shorter string and the bytes that lie behind it
TornString(old, new) ==
    LET short == IF Len(old) < Len(new) THEN old ELSE new
        long == IF Len(old) < Len(new) THEN new ELSE old
    IN  {new} \cup
        IF Len(old) = Len(new) THEN {}
        ELSE {SubSeq(long, 1, Len(short))} \cup
             {short \o [i \in 1..(Len(long) - Len(short)) |-> g] :
                 g \in GarbageBytes}

\* the base URLs a client of the model holds: what NewClient stores, and
\* what is read once WithBaseURL(LateBaseURL) is applied to a client that
\* NewClient built without WithBaseURL
ClientBaseURLs ==
    {DefaultBaseURL} \cup {WithBaseURL(u) : u \in BaseURLOptions}
        \cup TornString(DefaultBaseURL, WithBaseURL(LateBaseURL))

\* the URLs doRequest builds
DispatchURLs ==
    {URLOf(b, e) :
        b \in ClientBaseURLs,
        e \in {<<>>} \cup {Endpoint(m, [Path |-> pa, ReturnContent |-> rc]) :
                              m \in Methods, pa \in PagePaths, rc \in BOOLEAN}}

\* url.Parse(url) for each of them
ParseErrors == [url \in DispatchURLs |-> urlParse(url)]

\* http.NewRequestWithContext returns an error: the URL does not parse
InvalidURL(url) == ParseErrors[url] # ""

\* http.NewRequestWithContext(ctx, method, url, body): the request carries
\* what the buffer still holds, and no body when that is nothing
NewRequest(url, buf) ==
    [URL |-> url,
     ContentLength |-> Len(buf.unread),
     Body |-> buf.unread]

\* how many chunks of the body the transport reads before Do returns: all
\* of them when a response came back, any number when the call failed
ReadCounts(o, buf) ==
    IF o.kind = "resp" THEN {Len(buf.unread)} ELSE 0..Len(buf.unread)

\* the buffer after k chunks were read from it
Drain(buf, k) ==
    [buf EXCEPT !.unread = SubSeq(buf.unread, k + 1, Len(buf.unread))]

\* variant: the body is left open
CloseBodyNever(cl, i) == cl

\* resp.Body.Close() on the i-th response of the dispatch
CloseBody(cl, i) == [cl EXCEPT ![i] = @ + 1]

(***************************************************************************)
(* Client.doRequest (src/client.go:124-183), one goroutine p at a time.    *)
(*   idle      not in doRequest                                            *)
(*   limiter   about to call c.rateLimiter.Wait(ctx)                       *)
(*   waiting   inside Wait, suspended until a token is available for it    *)
(*   orphaned  as waiting, inside Wait of a limiter that WithRateLimit has  *)
(*             replaced in c.rateLimiter meanwhile                         *)
(*   backoff   in the select of the retry loop                             *)
(*   inflight  inside c.httpClient.Do(req)                                 *)
(*   done      doRequest has returned                                      *)
(*   off       a goroutine that never calls the client                     *)
(***************************************************************************)
Set(f, p, v) == [f EXCEPT ![p] = v]

\* variant: the loop stops one attempt early
MoreAttemptsOffByOne(c, a) == a < c.MaxRetries

\* variant: the loop makes one attempt more
MoreAttemptsOneMore(c, a) == a <= c.MaxRetries + 1

\* the condition of the retry loop: attempt <= c.retryConfig.MaxRetries
MoreAttempts(c, a) == a <= c.MaxRetries

\* ctx.Err() of the done context of p's dispatch.  Cancel stands for
\* cancel() and for the deadline; which of the two it was shows in the
\* error the context gives, the same at every call within one dispatch
CtxErrOf(p) ==
    LET seen == {history[p][i].err :
                    i \in {j \in 1..Len(history[p]) : history[p][j].kind = "ctxerr"}}
    IN  IF seen = {} THEN CtxErrors ELSE seen

\* c.mu: doRequest holds the read lock from its first statement until it
\* returns (defer c.mu.RUnlock()); no method of the client takes the write
\* lock
muReaders ==
    {p \in Procs :
        pc[p] \in {"limiter", "waiting", "orphaned", "backoff", "inflight"}}

muWriters == {}

\* variant: doRequest takes the lock in write mode
CanRLockExclusive == muWriters = {} /\ muReaders = {}

\* c.mu.RLock() returns: no goroutine holds or awaits the write lock
CanRLock == muWriters = {}

\* doRequest is entered with a context that is done already or not
EnterWith(p, done) ==
    /\ started < MaxDispatches
    /\ CanRLock
    /\ started' = started + 1
    /\ pc' = Set(pc, p, "limiter")
    /\ ctxDone' = Set(ctxDone, p, done)
    /\ bodyBuf' = Set(bodyBuf, p, NilReader)
    /\ sent' = Set(sent, p, <<>>)
    /\ closes' = Set(closes, p, <<>>)
    /\ attempt' = Set(attempt, p, 0)
    /\ delay' = Set(delay, p, I64(0))
    /\ timerFired' = Set(timerFired, p, FALSE)
    /\ calls' = Set(calls, p, 0)
    /\ taken' = Set(taken, p, 0)
    /\ history' = Set(history, p, <<>>)
    /\ lastErr' = Set(lastErr, p, NoErr)
    /\ result' = Set(result, p, NoResult)
    /\ queued' = Set(queued, p, 0)
    /\ UNCHANGED <<configVars, lim, retired, now, acquired>>

\* doRequest is entered with a context that is not done yet
Enter(p) == EnterWith(p, FALSE)

\* the caller starts a dispatch
Start(p) ==
    /\ pc[p] \in {"idle", "done"}
    /\ Enter(p)
    /\ UNCHANGED sideVars

\* the caller starts a dispatch with a context that is done already
StartCancelled(p) ==
    /\ pc[p] \in {"idle", "done"}
    /\ EnterWith(p, TRUE)
    /\ UNCHANGED sideVars

\* the limiter whose Wait goroutine p is inside: c.rateLimiter as it was
\* when p called it
LimiterOf(p) ==
    IF pc[p] = "orphaned"
    THEN CHOOSE l \in retired : Place(l.waiters, p) > 0
    ELSE lim

\* the cancellation signal of p's dispatch fires (cancel() or the deadline)
Cancel(p) ==
    /\ pc[p] \in {"limiter", "waiting", "orphaned", "backoff", "inflight"}
    /\ ~ctxDone[p]
    /\ ctxDone' = Set(ctxDone, p, TRUE)
    /\ UNCHANGED <<clientVars, pc, attempt, delay, timerFired, calls, sent,
                   taken, history, bodyBuf, closes, lastErr, result, queued,
                   sideVars>>

\* time passes; a suspended caller is woken at the instant a token is
\* available for it, so no time passes while one can be admitted
Tick ==
    /\ now < MaxTime
    /\ \A p \in Procs :
          pc[p] \in {"waiting", "orphaned"} => ~Admits(LimiterOf(p), p, now)
    /\ now' = now + 1
    /\ UNCHANGED <<configVars, lim, retired, started, acquired, procVars,
                   sideVars>>

\* Wait returned nil: the body is marshalled and the loop is entered with
\* attempt = 0; the first request is built and handed to httpClient.Do
BeginLoop(p) ==
    /\ taken' = Set(taken, p, taken[p] + 1)
    /\ acquired' = acquired + 1
    /\ bodyBuf' = Set(bodyBuf, p, BodyOf(method[p], req[p]))
    /\ IF ~MoreAttempts(cfg, 0)
       THEN /\ pc' = Set(pc, p, "done")
            /\ calls' = calls
            /\ sent' = sent
            /\ result' = Set(result, p, ExhaustedResult(cfg.MaxRetries + 1, lastErr[p]))
       ELSE IF InvalidURL(URLOf(baseURL, Endpoint(method[p], req[p])))
       THEN /\ pc' = Set(pc, p, "done")
            /\ calls' = calls
            /\ sent' = sent
            /\ result' = Set(result, p,
                             CreateFailedResult(
                                 ParseErrors[URLOf(baseURL,
                                                   Endpoint(method[p], req[p]))]))
       ELSE /\ pc' = Set(pc, p, "inflight")
            /\ calls' = Set(calls, p, calls[p] + 1)
            /\ sent' = Set(sent, p,
                          Append(sent[p],
                                 NewRequest(URLOf(baseURL,
                                                  Endpoint(method[p], req[p])),
                                            BodyOf(method[p], req[p]))))
            /\ result' = result
    /\ UNCHANGED <<configVars, now, started, ctxDone, attempt, delay,
                   timerFired, history, closes, lastErr, sideVars>>

\* the limiters in S with p's Wait on l replaced by its outcome m; a
\* limiter that the client does not point to and in whose Wait no goroutine
\* is left is garbage
Settle(S, l, m) == {x \in (S \ {l}) \cup {m} : x.waiters # <<>>}

\* Wait has come to the outcome a: its error is wrapped and returned, or
\* the loop is entered, or the goroutine sleeps inside Wait
WaitOutcome(p, a) ==
    CASE a.out = "cancelled" ->
            /\ pc' = Set(pc, p, "done")
            /\ \E e \in CtxErrOf(p) : result' = Set(result, p, RateLimitResult(e))
            /\ UNCHANGED <<clientVars, ctxDone, attempt, delay, timerFired,
                           calls, sent, taken, history, bodyBuf, closes,
                           lastErr, queued, sideVars>>
      [] a.out = "acquired" ->
            /\ lim' = a.lim
            /\ retired' = retired
            /\ queued' = queued
            /\ BeginLoop(p)
      [] a.out = "suspended" ->
            /\ lim' = a.lim
            /\ retired' = retired
            /\ queued' = Set(queued, p, Place(a.lim.waiters, p))
            /\ pc' = Set(pc, p, "waiting")
            /\ UNCHANGED <<configVars, now, started, acquired, ctxDone,
                           attempt, delay, timerFired, calls, sent, taken,
                           history, bodyBuf, closes, lastErr, result,
                           sideVars>>

\* if err := c.rateLimiter.Wait(ctx); err != nil { return nil,
\* fmt.Errorf("rate limiting failed: %w", err) }, up to the return of Wait
\* or its sleep
WaitBegin(p) ==
    /\ pc[p] = "limiter"
    /\ WaitOutcome(p, Acquire(lim, p, now, ctxDone[p]))

\* a token is available for the sleeping goroutine on the limiter it
\* called: Wait returns nil
WaitWake(p) ==
    /\ pc[p] \in {"waiting", "orphaned"}
    /\ Admits(LimiterOf(p), p, now)
    /\ IF pc[p] = "waiting"
       THEN /\ lim' = Take(lim, p, now)
            /\ retired' = retired
       ELSE /\ lim' = lim
            /\ retired' = Settle(retired, LimiterOf(p),
                                 Take(LimiterOf(p), p, now))
    /\ queued' = queued
    /\ BeginLoop(p)

\* the context is done during the sleep: the goroutine leaves the queue of
\* the limiter it waits on and Wait returns ctx.Err()
WaitCancel(p) ==
    /\ pc[p] \in {"waiting", "orphaned"}
    /\ ctxDone[p]
    /\ IF pc[p] = "waiting"
       THEN /\ lim' = Leave(lim, p)
            /\ retired' = retired
       ELSE /\ lim' = lim
            /\ retired' = Settle(retired, LimiterOf(p), Leave(LimiterOf(p), p))
    /\ pc' = Set(pc, p, "done")
    /\ \E e \in CtxErrOf(p) : result' = Set(result, p, RateLimitResult(e))
    /\ UNCHANGED <<configVars, now, started, acquired, ctxDone, attempt, delay,
                   timerFired, calls, sent, taken, history, bodyBuf, closes,
                   lastErr, queued, sideVars>>

\* time.After(delay) delivers
TimerFire(p) ==
    /\ pc[p] = "backoff"
    /\ ~timerFired[p]
    /\ timerFired' = Set(timerFired, p, TRUE)
    /\ UNCHANGED <<clientVars, pc, ctxDone, attempt, delay, calls, sent, taken,
                   history, bodyBuf, closes, lastErr, result, queued, sideVars>>

\* variant: the context is looked at only once the delay has passed
BackoffCancelledAfterDelay(p) ==
    /\ pc[p] = "backoff"
    /\ ctxDone[p]
    /\ timerFired[p]
    /\ pc' = Set(pc, p, "done")
    /\ \E e \in CtxErrOf(p) : result' = Set(result, p, CtxResult(e))
    /\ UNCHANGED <<clientVars, ctxDone, attempt, delay, timerFired, calls,
                   sent, taken, history, bodyBuf, closes, lastErr, queued,
                   sideVars>>

\* select: case <-ctx.Done(): return nil, ctx.Err()
BackoffCancelled(p) ==
    /\ pc[p] = "backoff"
    /\ ctxDone[p]
    /\ pc' = Set(pc, p, "done")
    /\ \E e \in CtxErrOf(p) : result' = Set(result, p, CtxResult(e))
    /\ UNCHANGED <<clientVars, ctxDone, attempt, delay, timerFired, calls,
                   sent, taken, history, bodyBuf, closes, lastErr, queued,
                   sideVars>>

\* the variable url of p's doRequest, set once before the retry loop
\* (src/client.go:142): the URL its first request went to
DispatchURL(p) == sent[p][1].URL

\* variant: the delay that has passed becomes the client's InitialDelay
BackoffElapsedStoresDelay(p) ==
    /\ pc[p] = "backoff"
    /\ timerFired[p]
    /\ pc' = Set(pc, p, "inflight")
    /\ calls' = Set(calls, p, calls[p] + 1)
    /\ sent' = Set(sent, p,
                  Append(sent[p],
                         NewRequest(DispatchURL(p), bodyBuf[p])))
    /\ cfg' = [cfg EXCEPT !.InitialDelay = delay[p]]
    /\ UNCHANGED <<baseURL, httpClient, lim, retired, now, started, acquired,
                   ctxDone,
                   attempt, delay, timerFired, taken, history, bodyBuf, closes,
                   lastErr, result, queued, sideVars>>

\* select: case <-time.After(delay); the request is built and handed to
\* httpClient.Do
BackoffElapsed(p) ==
    /\ pc[p] = "backoff"
    /\ timerFired[p]
    /\ IF InvalidURL(DispatchURL(p))
       THEN /\ pc' = Set(pc, p, "done")
            /\ calls' = calls
            /\ sent' = sent
            /\ result' = Set(result, p, CreateFailedResult(ParseErrors[DispatchURL(p)]))
       ELSE /\ pc' = Set(pc, p, "inflight")
            /\ calls' = Set(calls, p, calls[p] + 1)
            /\ sent' = Set(sent, p,
                          Append(sent[p], NewRequest(DispatchURL(p), bodyBuf[p])))
            /\ result' = result
    /\ UNCHANGED <<clientVars, ctxDone, attempt, delay, timerFired, taken,
                   history, bodyBuf, closes, lastErr, queued, sideVars>>

\* the error doRequest records for what Do returned at attempt a
ErrOf(o, a) ==
    IF o.kind = "resp" THEN Err("status", o.status, a)
    ELSE IF o.kind = "ctxerr"
    THEN [kind |-> "ctxerr", status |-> 0, at |-> a, err |-> o.err]
    ELSE Err(o.kind, 0, a)

Retryable(o) ==
    IF o.kind = "resp" THEN shouldRetryStatus(o.status) ELSE shouldRetry(ErrOf(o, 0))

\* fmt.Errorf("request failed: %w", err)
FailedResult(err) == [kind |-> "failed", status |-> 0, attempts |-> 0, cause |-> err]

\* httpClient.Do returned o, the transport having read from the body: the
\* rest of the loop body (the body of a response that is retried is
\* closed), and for a retry the head of the next iteration (the delay is
\* computed, the select is entered)
DoReturned(p, o) ==
    /\ history' = Set(history, p, Append(history[p], o))
    /\ \E k \in ReadCounts(o, bodyBuf[p]) :
          bodyBuf' = Set(bodyBuf, p, Drain(bodyBuf[p], k))
    /\ closes' = Set(closes, p,
                    IF o.kind = "resp" /\ Retryable(o)
                    THEN CloseBody(Append(closes[p], 0), Len(closes[p]) + 1)
                    ELSE Append(closes[p], 0))
    /\ lastErr' = IF o.kind = "resp" /\ ~Retryable(o)
                  THEN lastErr
                  ELSE Set(lastErr, p, ErrOf(o, attempt[p]))
    /\ IF ~Retryable(o)
       THEN /\ pc' = Set(pc, p, "done")
            /\ result' = Set(result, p,
                            IF o.kind = "resp" THEN RespResult(o.status)
                            ELSE FailedResult(ErrOf(o, attempt[p])))
            /\ UNCHANGED <<attempt, delay, timerFired>>
       ELSE /\ attempt' = Set(attempt, p, attempt[p] + 1)
            /\ IF MoreAttempts(cfg, attempt[p] + 1)
               THEN /\ pc' = Set(pc, p, "backoff")
                    /\ delay' = Set(delay, p, calculateDelay(cfg, attempt[p] + 1))
                    /\ timerFired' = Set(timerFired, p, FALSE)
                    /\ result' = result
               ELSE /\ pc' = Set(pc, p, "done")
                    /\ result' = Set(result, p,
                                    ExhaustedResult(cfg.MaxRetries + 1, lastErr'[p]))
                    /\ UNCHANGED <<delay, timerFired>>
    /\ UNCHANGED <<clientVars, ctxDone, calls, sent, taken, queued, sideVars>>

\* the server answers, or the transport fails, while the context is live
Receive(p, o) ==
    /\ pc[p] = "inflight"
    /\ ~ctxDone[p]
    /\ DoReturned(p, o)

\* the context is done before the server has answered: Do fails with the
\* context's error
ReceiveCtxErr(p) ==
    /\ pc[p] = "inflight"
    /\ ctxDone[p]
    /\ \E e \in CtxErrOf(p) : DoReturned(p, CtxErr(e))

(***************************************************************************)
(* Errors and strings.  A string whose characters matter is a sequence of  *)
(* one-character strings, so that len and the URL pattern are computed.    *)
(***************************************************************************)
\* the nil error
Nil == [kind |-> "nil", msg |-> ""]

\* fmt.Errorf(msg), with the verbs of msg already filled in
Errorf(msg) == [kind |-> "error", msg |-> msg]

\* &APIError{Code: code, Description: description}
APIError(code, description) ==
    [kind |-> "APIError", Code |-> code, Description |-> description]

Repeat(c, n) == [i \in 1..n |-> c]

\* the class \s of the pattern of isValidURL
Whitespace == {" ", "\t", "\n", "\f", "\r"}

\* regexp `^https?://[^\s/$.?#].[^\s]*$`
isValidURL(str) ==
    IF str = <<>> THEN TRUE
    ELSE LET n == Len(str)
             j == IF n >= 5 /\ str[5] = "s" THEN 6 ELSE 5
         IN  /\ n >= j + 4
             /\ SubSeq(str, 1, 4) = <<"h", "t", "t", "p">>
             /\ SubSeq(str, j, j + 2) = <<":", "/", "/">>
             /\ str[j + 3] \notin Whitespace \cup {"/", "$", ".", "?", "#"}
             /\ str[j + 4] # "\n"
             /\ \A i \in (j + 5)..n : str[i] \notin Whitespace

(***************************************************************************)
(* Request validation (src/types.go:78-333).  The limits are on len(),     *)
(* the number of bytes of the string.                                      *)
(***************************************************************************)
CreateAccountRequest_Validate(r) ==
    IF r.ShortName = <<>> THEN Errorf("short_name is required")
    ELSE IF ByteLen(r.ShortName) > 32
    THEN Errorf("short_name must be at most 32 characters")
    ELSE IF ByteLen(r.AuthorName) > 128
    THEN Errorf("author_name must be at most 128 characters")
    ELSE IF ByteLen(r.AuthorURL) > 512
    THEN Errorf("author_url must be at most 512 characters")
    ELSE IF r.AuthorURL # <<>> /\ ~isValidURL(r.AuthorURL)
    THEN Errorf("author_url must be a valid URL")
    ELSE Nil

EditAccountInfoRequest_Validate(r) ==
    IF r.AccessToken = <<>> THEN Errorf("access_token is required")
    ELSE IF r.ShortName # <<>> /\ ByteLen(r.ShortName) > 32
    THEN Errorf("short_name must be at most 32 characters")
    ELSE IF ByteLen(r.AuthorName) > 128
    THEN Errorf("author_name must be at most 128 characters")
    ELSE IF ByteLen(r.AuthorURL) > 512
    THEN Errorf("author_url must be at most 512 characters")
    ELSE IF r.AuthorURL # <<>> /\ ~isValidURL(r.AuthorURL)
    THEN Errorf("author_url must be a valid URL")
    ELSE Nil

validFields ==
    {"short_name", "author_name", "author_url", "auth_url", "page_count"}

\* the loop over r.Fields: the error of the first field that is not valid
RECURSIVE FirstInvalidField(_, _)
FirstInvalidField(fields, i) ==
    IF i > Len(fields) THEN Nil
    ELSE IF fields[i] \notin validFields
    THEN Errorf("invalid field: " \o fields[i])
    ELSE FirstInvalidField(fields, i + 1)

GetAccountInfoRequest_Validate(r) ==
    IF r.AccessToken = <<>> THEN Errorf("access_token is required")
    ELSE FirstInvalidField(r.Fields, 1)

CreatePageRequest_Validate(r) ==
    IF r.AccessToken = <<>> THEN Errorf("access_token is required")
    ELSE IF r.Title = <<>> THEN Errorf("title is required")
    ELSE IF ByteLen(r.Title) > 256
    THEN Errorf("title must be at most 256 characters")
    ELSE IF ByteLen(r.AuthorName) > 128
    THEN Errorf("author_name must be at most 128 characters")
    ELSE IF ByteLen(r.AuthorURL) > 512
    THEN Errorf("author_url must be at most 512 characters")
    ELSE IF r.AuthorURL # <<>> /\ ~isValidURL(r.AuthorURL)
    THEN Errorf("author_url must be a valid URL")
    ELSE IF Len(r.Content) = 0 THEN Errorf("content is required")
    ELSE Nil

EditPageRequest_Validate(r) ==
    IF r.AccessToken = <<>> THEN Errorf("access_token is required")
    ELSE IF r.Path = <<>> THEN Errorf("path is required")
    ELSE IF r.Title = <<>> THEN Errorf("title is required")
    ELSE IF ByteLen(r.Title) > 256
    THEN Errorf("title must be at most 256 characters")
    ELSE IF ByteLen(r.AuthorName) > 128
    THEN Errorf("author_name must be at most 128 characters")
    ELSE IF ByteLen(r.AuthorURL) > 512
    THEN Errorf("author_url must be at most 512 characters")
    ELSE IF r.AuthorURL # <<>> /\ ~isValidURL(r.AuthorURL)
    THEN Errorf("author_url must be a valid URL")
    ELSE IF Len(r.Content) = 0 THEN Errorf("content is required")
    ELSE Nil

GetPageRequest_Validate(r) ==
    IF r.Path = <<>> THEN Errorf("path is required") ELSE Nil

GetPageListRequest_Validate(r) ==
    IF r.AccessToken = <<>> THEN Errorf("access_token is required")
    ELSE IF r.Offset < 0 THEN Errorf("offset must be non-negative")
    ELSE IF r.Limit < 0 \/ r.Limit > 200
    THEN Errorf("limit must be between 0 and 200")
    ELSE Nil

\* variant: an hour of 24 is refused
GetViewsRequest_ValidateHour23(r) ==
    IF r.Path = <<>> THEN Errorf("path is required")
    ELSE IF r.Year # 0 /\ (r.Year < 2000 \/ r.Year > 2100)
    THEN Errorf("year must be between 2000 and 2100")
    ELSE IF r.Month # 0 /\ (r.Month < 1 \/ r.Month > 12)
    THEN Errorf("month must be between 1 and 12")
    ELSE IF r.Day # 0 /\ (r.Day < 1 \/ r.Day > 31)
    THEN Errorf("day must be between 1 and 31")
    ELSE IF r.Hour # 0 /\ (r.Hour < 0 \/ r.Hour > 23)
    THEN Errorf("hour must be between 0 and 24")
    ELSE Nil

GetViewsRequest_Validate(r) ==
    IF r.Path = <<>> THEN Errorf("path is required")
    ELSE IF r.Year # 0 /\ (r.Year < 2000 \/ r.Year > 2100)
    THEN Errorf("year must be between 2000 and 2100")
    ELSE IF r.Month # 0 /\ (r.Month < 1 \/ r.Month > 12)
    THEN Errorf("month must be between 1 and 12")
    ELSE IF r.Day # 0 /\ (r.Day < 1 \/ r.Day > 31)
    THEN Errorf("day must be between 1 and 31")
    ELSE IF r.Hour # 0 /\ (r.Hour < 0 \/ r.Hour > 24)
    THEN Errorf("hour must be between 0 and 24")
    ELSE Nil

\* req.Validate() as the API method m calls it on its request
Validate(m, r) ==
    CASE m = "CreateAccount" -> CreateAccountRequest_Validate(r)
      [] m = "EditAccountInfo" -> EditAccountInfoRequest_Validate(r)
      [] m = "GetAccountInfo" -> GetAccountInfoRequest_Validate(r)
      [] m = "CreatePage" -> CreatePageRequest_Validate(r)
      [] m = "EditPage" -> EditPageRequest_Validate(r)
      [] m = "GetPage" -> GetPageRequest_Validate(r)
      [] m = "GetPageList" -> GetPageListRequest_Validate(r)
      [] m = "GetViews" -> GetViewsRequest_Validate(r)

(***************************************************************************)
(* JSON values as encoding/json reads them from a body, and the wire       *)
(* types of src/types.go:9-64.  A body is its raw text together with the   *)
(* JSON value the text denotes (JInvalid when the text is not JSON).       *)
(***************************************************************************)
JNull == [t |-> "null"]

JInvalid == [t |-> "invalid"]

JBool(b) == [t |-> "bool", v |-> b]

JNum(n) == [t |-> "num", v |-> n]

JStr(s) == [t |-> "str", v |-> s]

\* a text of valid UTF-8 whose characters do not matter, "" the empty
\* string: a string is the sequence of its pieces, each a text or a
\* character
Text(s) == IF s = "" THEN <<>> ELSE <<s>>

JArr(a) == [t |-> "arr", v |-> a]

\* a member of an object: its name, the sequence of its characters, and its
\* value
Mem(k, v) == [k |-> k, v |-> v]

\* an object: its members in the order of the text; a name may occur twice
JObj(ms) == [t |-> "obj", v |-> ms]

\* the zero value of a struct: no field holds anything but its zero value
Zero == [k \in {} |-> JNull]

\* the zero value of a Go variable (0, "", false, nil)
ZeroValue == [t |-> "zero"]

IsZero(x) == x.t = "zero"

\* the JSON keys of the struct tags of src/types.go
k_ok == <<"o", "k">>

k_result == <<"r", "e", "s", "u", "l", "t">>

k_error == <<"e", "r", "r", "o", "r">>

k_error_code == <<"e", "r", "r", "o", "r", "_", "c", "o", "d", "e">>

k_description == <<"d", "e", "s", "c", "r", "i", "p", "t", "i", "o", "n">>

k_short_name == <<"s", "h", "o", "r", "t", "_", "n", "a", "m", "e">>

k_author_name == <<"a", "u", "t", "h", "o", "r", "_", "n", "a", "m", "e">>

k_author_url == <<"a", "u", "t", "h", "o", "r", "_", "u", "r", "l">>

k_access_token == <<"a", "c", "c", "e", "s", "s", "_", "t", "o", "k", "e", "n">>

k_auth_url == <<"a", "u", "t", "h", "_", "u", "r", "l">>

k_page_count == <<"p", "a", "g", "e", "_", "c", "o", "u", "n", "t">>

k_path == <<"p", "a", "t", "h">>

k_url == <<"u", "r", "l">>

k_title == <<"t", "i", "t", "l", "e">>

k_image_url == <<"i", "m", "a", "g", "e", "_", "u", "r", "l">>

k_content == <<"c", "o", "n", "t", "e", "n", "t">>

k_views == <<"v", "i", "e", "w", "s">>

k_can_edit == <<"c", "a", "n", "_", "e", "d", "i", "t">>

k_total_count == <<"t", "o", "t", "a", "l", "_", "c", "o", "u", "n", "t">>

k_pages == <<"p", "a", "g", "e", "s">>

k_tag == <<"t", "a", "g">>

k_attrs == <<"a", "t", "t", "r", "s">>

k_children == <<"c", "h", "i", "l", "d", "r", "e", "n">>

k_Content == <<"C", "o", "n", "t", "e", "n", "t">>

\* the attributes a Node keeps
k_href == <<"h", "r", "e", "f">>

k_src == <<"s", "r", "c">>

\* a field of a struct: its JSON key and the type it is decoded into
Fld(name, type) == [name |-> name, type |-> type]

\* type APIError struct
APIErrorFields == <<Fld(k_error_code, "int"), Fld(k_description, "string")>>

\* type APIResponse struct
APIResponseFields ==
    <<Fld(k_ok, "bool"), Fld(k_result, "any"), Fld(k_error, "string")>>

\* type Account struct
AccountFields ==
    <<Fld(k_short_name, "string"), Fld(k_author_name, "string"),
      Fld(k_author_url, "string"), Fld(k_access_token, "string"),
      Fld(k_auth_url, "string"), Fld(k_page_count, "int")>>

\* type Page struct
PageFields ==
    <<Fld(k_path, "string"), Fld(k_url, "string"), Fld(k_title, "string"),
      Fld(k_description, "string"), Fld(k_author_name, "string"),
      Fld(k_author_url, "string"), Fld(k_image_url, "string"),
      Fld(k_content, "nodes"), Fld(k_views, "int"), Fld(k_can_edit, "bool")>>

\* type PageList struct
PageListFields == <<Fld(k_total_count, "int"), Fld(k_pages, "pages")>>

\* type PageViews struct
PageViewsFields == <<Fld(k_views, "int")>>

\* type Node struct (the tag of the field Content names no key, so its key
\* is the name of the field)
NodeFields ==
    <<Fld(k_tag, "string"), Fld(k_attrs, "attrs"), Fld(k_children, "nodes"),
      Fld(k_Content, "string")>>

\* the struct an element of a slice field is decoded into
ElemFields(ty) == IF ty = "pages" THEN PageFields ELSE NodeFields

\* the upper-case letter of each lower-case ASCII letter
UpperOf ==
    [a |-> "A", b |-> "B", c |-> "C", d |-> "D", e |-> "E", f |-> "F",
     g |-> "G", h |-> "H", i |-> "I", j |-> "J", k |-> "K", l |-> "L",
     m |-> "M", n |-> "N", o |-> "O", p |-> "P", q |-> "Q", r |-> "R",
     s |-> "S", t |-> "T", u |-> "U", v |-> "V", w |-> "W", x |-> "X",
     y |-> "Y", z |-> "Z"]

\* the character every character of its unicode.SimpleFold orbit is folded
\* to, the one of the smallest code: an ASCII letter, the Kelvin sign and
\* the long s to the upper-case ASCII letter, a letter outside ASCII to its
\* capital, a byte that is no character to U+FFFD, any other character to
\* itself
foldRune(c) ==
    IF c \in DOMAIN UpperOf THEN UpperOf[c]
    ELSE IF c = KelvinSign THEN "K"
    ELSE IF c = LongS THEN "S"
    ELSE IF c = SmallEAcute THEN CapitalEAcute
    ELSE IF c \in {SmallSigma, FinalSigma} THEN CapitalSigma
    ELSE IF c = InvalidByte THEN ReplacementChar
    ELSE c

\* foldName(key) of encoding/json
foldName(k) == [i \in 1..Len(k) |-> foldRune(k[i])]

\* two names that differ in letter case only
EqualFold(a, b) == foldName(a) = foldName(b)

\* the field of a struct with fields types that a member named key is
\* stored in, as an index into types: the field of that key, or else the
\* first one whose key differs from it in case only; 0 when there is none
\* and the member is skipped
FieldFor(key, types) ==
    IF \E f \in 1..Len(types) : types[f].name = key
    THEN CHOOSE f \in 1..Len(types) : types[f].name = key
    ELSE IF \E f \in 1..Len(types) : EqualFold(types[f].name, key)
    THEN CHOOSE f \in 1..Len(types) :
            /\ EqualFold(types[f].name, key)
            /\ \A g \in 1..(f - 1) : ~EqualFold(types[g].name, key)
    ELSE 0

\* a < b for two sequences of bytes, from place i on
RECURSIVE LessFrom(_, _, _)
LessFrom(a, b, i) ==
    IF i > Len(a) THEN i <= Len(b)
    ELSE IF i > Len(b) THEN FALSE
    ELSE IF a[i] = b[i] THEN LessFrom(a, b, i + 1)
    ELSE a[i] < b[i]

\* a < b as Go compares strings: by their bytes
Less(a, b) == LessFrom(BytesOf(a), BytesOf(b), 1)

\* a string as encoding/json writes and reads it: every byte that is not
\* valid UTF-8 becomes U+FFFD
toValidUTF8(s) ==
    [i \in 1..Len(s) |-> IF s[i] = InvalidByte THEN ReplacementChar ELSE s[i]]

\* the keys of a map in the order json.Marshal writes them
RECURSIVE SortKeys(_)
SortKeys(S) ==
    IF S = {} THEN <<>>
    ELSE LET m == CHOOSE x \in S : \A y \in S \ {x} : Less(x, y)
         IN  <<m>> \o SortKeys(S \ {m})

\* the value the last member named k of the members ms has
LastOf(ms, k) ==
    ms[CHOOSE i \in 1..Len(ms) :
          ms[i].k = k /\ \A n \in (i + 1)..Len(ms) : ms[n].k # k].v

\* the members ms with their names as the decoder reads them
Unquoted(ms) == [i \in 1..Len(ms) |-> Mem(toValidUTF8(ms[i].k), ms[i].v)]

\* a JSON value decoded into an interface{} and marshalled again: an object
\* becomes a map, which keeps the last member of each name and is written
\* with its keys sorted; a string is read, and so are the names, with every
\* byte that is not valid UTF-8 turned into U+FFFD
RECURSIVE valueInterface(_)
valueInterface(j) ==
    CASE j.t = "obj" ->
            LET ms == Unquoted(j.v)
                keys == SortKeys({ms[i].k : i \in 1..Len(ms)})
            IN  JObj([i \in 1..Len(keys) |->
                         Mem(keys[i], valueInterface(LastOf(ms, keys[i])))])
      [] j.t = "arr" -> JArr([i \in 1..Len(j.v) |-> valueInterface(j.v[i])])
      [] j.t = "str" -> JStr(toValidUTF8(j.v))
      [] OTHER -> j

\* a map[string]string and a slice of structs as Go variables hold them;
\* mem is the backing array, of which the first len elements are the slice
MapValue(kv) == [t |-> "map", v |-> kv]

Slice(n, mem) == [t |-> "slice", len |-> n, mem |-> mem]

\* the struct val with field name set to x
Assign(val, name, x) ==
    IF IsZero(x) THEN [n \in DOMAIN val \ {name} |-> val[n]]
    ELSE [n \in DOMAIN val \cup {name} |-> IF n = name THEN x ELSE val[n]]

RECURSIVE decodeValue(_, _, _)
RECURSIVE decodeObject(_, _, _, _)

\* a JSON value into a struct with fields types that holds cur: null leaves
\* it alone, an object is decoded member by member, anything else is an
\* error and leaves it alone
decodeStruct(j, types, cur) ==
    IF j.t = "null" THEN [err |-> FALSE, val |-> cur]
    ELSE IF j.t # "obj" THEN [err |-> TRUE, val |-> cur]
    ELSE decodeObject(j.v, 1, types, [err |-> FALSE, val |-> cur])

\* the members ms[i], ms[i+1], ... in turn: a member that names no field is
\* skipped, every other is decoded into its field, which holds what an
\* earlier member of the same field left there
decodeObject(ms, i, types, acc) ==
    IF i > Len(ms) THEN acc
    ELSE LET f == FieldFor(toValidUTF8(ms[i].k), types)
         IN  IF f = 0 THEN decodeObject(ms, i + 1, types, acc)
             ELSE LET name == types[f].name
                      cur == IF name \in DOMAIN acc.val THEN acc.val[name]
                             ELSE ZeroValue
                      r == decodeValue(ms[i].v, types[f].type, cur)
                  IN  decodeObject(ms, i + 1, types,
                                   [err |-> acc.err \/ r.err,
                                    val |-> Assign(acc.val, name, r.val)])

\* JSON value j into a Go variable of type ty that holds cur: the error and
\* what the variable holds afterwards.  null sets an interface, a map and a
\* slice to nil and leaves every other variable alone; a value of the wrong
\* type is an error and leaves the variable alone; a map keeps its entries
\* and takes the members, the empty string <<>> for a member that is null
\* or not a string; a
\* slice takes the elements, each decoded into the element the backing
\* array holds at its place
decodeValue(j, ty, cur) ==
    IF j.t = "null"
    THEN [err |-> FALSE,
          val |-> IF ty \in {"any", "attrs", "pages", "nodes"} THEN ZeroValue
                  ELSE cur]
    ELSE CASE ty = "any" -> [err |-> FALSE, val |-> valueInterface(j)]
           [] ty = "int" ->
                 IF j.t = "num"
                 THEN [err |-> FALSE, val |-> IF j.v = 0 THEN ZeroValue ELSE j]
                 ELSE [err |-> TRUE, val |-> cur]
           [] ty = "string" ->
                 IF j.t = "str"
                 THEN [err |-> FALSE,
                       val |-> IF Len(j.v) = 0 THEN ZeroValue
                               ELSE JStr(toValidUTF8(j.v))]
                 ELSE [err |-> TRUE, val |-> cur]
           [] ty = "bool" ->
                 IF j.t = "bool"
                 THEN [err |-> FALSE, val |-> IF j.v THEN j ELSE ZeroValue]
                 ELSE [err |-> TRUE, val |-> cur]
           [] ty = "attrs" ->
                 IF j.t # "obj" THEN [err |-> TRUE, val |-> cur]
                 ELSE LET old == IF IsZero(cur) THEN <<>> ELSE cur.v
                          ms == Unquoted(j.v)
                          keys == {ms[i].k : i \in 1..Len(ms)}
                      IN  [err |-> \E i \in 1..Len(ms) :
                                      ms[i].v.t \notin {"str", "null"},
                           val |-> MapValue(
                               [k \in DOMAIN old \cup keys |->
                                   IF k \notin keys THEN old[k]
                                   ELSE IF LastOf(ms, k).t = "str"
                                   THEN toValidUTF8(LastOf(ms, k).v)
                                   ELSE <<>>])]
           [] ty \in {"pages", "nodes"} ->
                 IF j.t # "arr" THEN [err |-> TRUE, val |-> cur]
                 ELSE IF Len(j.v) = 0
                 THEN [err |-> FALSE, val |-> Slice(0, <<>>)]
                 ELSE LET mem == IF IsZero(cur) THEN <<>> ELSE cur.mem
                          n == Len(j.v)
                          last == IF n > Len(mem) THEN n ELSE Len(mem)
                          els == [i \in 1..n |->
                                     decodeStruct(j.v[i], ElemFields(ty),
                                                  IF i <= Len(mem) THEN mem[i]
                                                  ELSE Zero)]
                      IN  [err |-> \E i \in 1..n : els[i].err,
                           val |-> Slice(n, [i \in 1..last |->
                                                IF i <= n THEN els[i].val
                                                ELSE mem[i]])]

\* whether JSON value v is stored in a new Go variable of type ty without
\* an error
Fits(v, ty) == ~decodeValue(v, ty, ZeroValue).err

\* json.Unmarshal of JSON value v into a zero struct with fields types: the
\* error, and the fields that do not hold their zero value
Unmarshal(v, types) == decodeStruct(v, types, Zero)

\* a field of a decoded struct, zero when it holds its zero value
Field(val, k, zero) == IF k \in DOMAIN val THEN val[k].v ELSE zero

\* json.Marshal(apiResp.Result) of the interface{}: null for nil
ResultOf(val) == IF k_result \in DOMAIN val THEN val[k_result] ELSE JNull

\* variant: an envelope without a result is a decode error
parseResponseRequiresResult(resp, fields) ==
    IF resp.readErr
    THEN [err |-> Errorf("failed to read response body"), value |-> Zero]
    ELSE IF resp.StatusCode # 200
    THEN LET d == Unmarshal(resp.Body.json, APIErrorFields)
         IN  [err |-> IF d.err THEN APIError(resp.StatusCode, resp.Body.text)
                      ELSE APIError(Field(d.val, k_error_code, 0),
                                    Field(d.val, k_description, Text(""))),
              value |-> Zero]
    ELSE LET a == Unmarshal(resp.Body.json, APIResponseFields)
             r == Unmarshal(ResultOf(a.val), fields)
         IN  IF a.err
             THEN [err |-> Errorf("failed to unmarshal response"), value |-> Zero]
             ELSE IF ~Field(a.val, k_ok, FALSE)
             THEN [err |-> APIError(0, Text("API returned ok: false")), value |-> Zero]
             ELSE IF r.err \/ ResultOf(a.val) = JNull
             THEN [err |-> Errorf("failed to unmarshal result"), value |-> r.val]
             ELSE [err |-> Nil, value |-> r.val]

\* variant: the check of the status accepts every status below 300
parseResponseAny2xx(resp, fields) ==
    IF resp.readErr
    THEN [err |-> Errorf("failed to read response body"), value |-> Zero]
    ELSE IF resp.StatusCode >= 300
    THEN LET d == Unmarshal(resp.Body.json, APIErrorFields)
         IN  [err |-> IF d.err THEN APIError(resp.StatusCode, resp.Body.text)
                      ELSE APIError(Field(d.val, k_error_code, 0),
                                    Field(d.val, k_description, Text(""))),
              value |-> Zero]
    ELSE LET a == Unmarshal(resp.Body.json, APIResponseFields)
             r == Unmarshal(ResultOf(a.val), fields)
         IN  IF a.err
             THEN [err |-> Errorf("failed to unmarshal response"), value |-> Zero]
             ELSE IF ~Field(a.val, k_ok, FALSE)
             THEN [err |-> APIError(0, Text("API returned ok: false")), value |-> Zero]
             ELSE IF r.err
             THEN [err |-> Errorf("failed to unmarshal result"), value |-> r.val]
             ELSE [err |-> Nil, value |-> r.val]

\* Client.parseResponse(resp, &result) for a result struct with fields
\* "fields": the error returned and the value left in result (what
\* json.Unmarshal has stored when it fails stays there)
parseResponse(resp, fields) ==
    IF resp.readErr
    THEN [err |-> Errorf("failed to read response body"), value |-> Zero]
    ELSE IF resp.StatusCode # 200
    THEN LET d == Unmarshal(resp.Body.json, APIErrorFields)
         IN  [err |-> IF d.err THEN APIError(resp.StatusCode, resp.Body.text)
                      ELSE APIError(Field(d.val, k_error_code, 0),
                                    Field(d.val, k_description, Text(""))),
              value |-> Zero]
    ELSE LET a == Unmarshal(resp.Body.json, APIResponseFields)
             r == Unmarshal(ResultOf(a.val), fields)
         IN  IF a.err
             THEN [err |-> Errorf("failed to unmarshal response"), value |-> Zero]
             ELSE IF ~Field(a.val, k_ok, FALSE)
             THEN [err |-> APIError(0, Text("API returned ok: false")), value |-> Zero]
             ELSE IF r.err
             THEN [err |-> Errorf("failed to unmarshal result"), value |-> r.val]
             ELSE [err |-> Nil, value |-> r.val]

\* a response as the transport hands it over; readErr: reading the body fails
Response(status, body, readErr) ==
    [StatusCode |-> status, Body |-> body, readErr |-> readErr]

Body(text, json) == [text |-> text, json |-> json]

\* bodies a server may send
Bodies ==
    {Body(Text("{\"error_code\":400,\"description\":\"Bad Request\"}"),
          JObj(<<Mem(k_error_code, JNum(400)), Mem(k_description,
          JStr(Text("Bad Request")))>>)),
     Body(Text("{\"error_code\":\"E400\",\"description\":\"Bad Request\"}"),
          JObj(<<Mem(k_error_code, JStr(Text("E400"))), Mem(k_description,
          JStr(Text("Bad Request")))>>)),
     Body(Text("Service Unavailable"),
          JInvalid),
     Body(Text(""),
          JInvalid),
     Body(Text("null"),
          JNull),
     Body(Text("[]"),
          JArr(<<>>)),
     Body(Text("{}"),
          JObj(<<>>)),
     Body(Text("{\"ok\":false,\"error\":\"ACCESS_TOKEN_INVALID\"}"),
          JObj(<<Mem(k_ok, JBool(FALSE)), Mem(k_error,
          JStr(Text("ACCESS_TOKEN_INVALID")))>>)),
     Body(Text("{\"ok\":false}"),
          JObj(<<Mem(k_ok, JBool(FALSE))>>)),
     Body(Text("{\"ok\":\"yes\"}"),
          JObj(<<Mem(k_ok, JStr(Text("yes")))>>)),
     Body(Text("{\"ok\":true}"),
          JObj(<<Mem(k_ok, JBool(TRUE))>>)),
     Body(Text("{\"ok\":true,\"OK\":false}"),
          JObj(<<Mem(k_ok, JBool(TRUE)), Mem(<<"O", "K">>, JBool(FALSE))>>)),
     Body(Text("{\"ok\":true,\"result\":\"done\"}"),
          JObj(<<Mem(k_ok, JBool(TRUE)), Mem(k_result, JStr(Text("done")))>>)),
     Body(Text("{\"ok\":true,\"result\":{\"views\":42}}"),
          JObj(<<Mem(k_ok, JBool(TRUE)), Mem(k_result, JObj(<<Mem(k_views,
          JNum(42))>>))>>)),
     Body(Text("{\"ok\":true,\"result\":{\"views\":\"many\"}}"),
          JObj(<<Mem(k_ok, JBool(TRUE)), Mem(k_result, JObj(<<Mem(k_views,
          JStr(Text("many")))>>))>>)),
     Body(Text("{\"ok\":true,\"result\":{\"VIEWS\":\"many\"}}"),
          JObj(<<Mem(k_ok, JBool(TRUE)), Mem(k_result, JObj(<<Mem(<<"V", "I",
          "E", "W", "S">>, JStr(Text("many")))>>))>>)),
     Body(Text("{\"ok\":true,\"result\":{\"views\":1,\"Views\":\"many\"}}"),
          JObj(<<Mem(k_ok, JBool(TRUE)), Mem(k_result, JObj(<<Mem(k_views,
          JNum(1)), Mem(<<"V", "i", "e", "w", "s">>, JStr(Text("many")))>>))>>)),
     Body(Text("{\"ok\":true,\"result\":{\"views\":\"many\",\"views\":1}}"),
          JObj(<<Mem(k_ok, JBool(TRUE)), Mem(k_result, JObj(<<Mem(k_views,
          JStr(Text("many"))), Mem(k_views, JNum(1))>>))>>)),
     Body(Text("{\"OK\":true,\"result\":{\"Views\":42}}"),
          JObj(<<Mem(<<"O", "K">>, JBool(TRUE)), Mem(k_result,
          JObj(<<Mem(<<"V", "i", "e", "w", "s">>, JNum(42))>>))>>)),
     Body(Text("{\"Error_Code\":400,\"Description\":\"Bad Request\"}"),
          JObj(<<Mem(<<"E", "r", "r", "o", "r", "_", "C", "o", "d", "e">>,
          JNum(400)), Mem(<<"D", "e", "s", "c", "r", "i", "p", "t", "i", "o",
          "n">>, JStr(Text("Bad Request")))>>)),
     Body(Text("{\"ERROR_CODE\":\"E400\"}"),
          JObj(<<Mem(<<"E", "R", "R", "O", "R", "_", "C", "O", "D", "E">>,
          JStr(Text("E400")))>>)),
     Body(Text("{\"ok\":true,\"result\":{\"total_count\":1,\"pages\":[{\"views\":\"many\"}]}}"),
          JObj(<<Mem(k_ok, JBool(TRUE)), Mem(k_result,
          JObj(<<Mem(k_total_count, JNum(1)), Mem(k_pages,
          JArr(<<JObj(<<Mem(k_views, JStr(Text("many")))>>)>>))>>))>>)),
     Body(Text("{\"ok\":true,\"result\":{\"total_count\":1,\"pages\":[{\"views\":3},null]}}"),
          JObj(<<Mem(k_ok, JBool(TRUE)), Mem(k_result,
          JObj(<<Mem(k_total_count, JNum(1)), Mem(k_pages,
          JArr(<<JObj(<<Mem(k_views, JNum(3))>>), JNull>>))>>))>>)),
     Body(Text("{\"ok\":true,\"result\":{\"Total_Count\":\"x\"}}"),
          JObj(<<Mem(k_ok, JBool(TRUE)), Mem(k_result, JObj(<<Mem(<<"T", "o",
          "t", "a", "l", "_", "C", "o", "u", "n", "t">>, JStr(Text("x")))>>))>>)),
     Body(Text("{\"ok\":true,\"result\":{\"content\":[{\"tag\":5}]}}"),
          JObj(<<Mem(k_ok, JBool(TRUE)), Mem(k_result, JObj(<<Mem(k_content,
          JArr(<<JObj(<<Mem(k_tag, JNum(5))>>)>>))>>))>>)),
     Body(Text("{\"ok\":true,\"result\":{\"short_name\":\"Blog\",\"page_count\":3}}"),
          JObj(<<Mem(k_ok, JBool(TRUE)), Mem(k_result,
          JObj(<<Mem(k_short_name, JStr(Text("Blog"))), Mem(k_page_count,
          JNum(3))>>))>>)),
     Body(Text("{\"ok\":true,\"result\":{\"Short_Name\":\"Blog\"}}"),
          JObj(<<Mem(k_ok, JBool(TRUE)), Mem(k_result, JObj(<<Mem(<<"S", "h",
          "o", "r", "t", "_", "N", "a", "m", "e">>, JStr(Text("Blog")))>>))>>))}

\* a body whose strings and member names hold bytes that are not valid
\* UTF-8
InvalidUTF8Body ==
    Body(<<"{\"ok\":false,\"error\":\"BAD", InvalidByte,
           "\",\"description\":\"Bad", InvalidByte, "Request\",\"ok",
           InvalidByte, "\":true}">>,
         JObj(<<Mem(k_ok, JBool(FALSE)),
                Mem(k_error, JStr(<<"BAD", InvalidByte>>)),
                Mem(k_description, JStr(<<"Bad", InvalidByte, "Request">>)),
                Mem(k_ok \o <<InvalidByte>>, JBool(TRUE))>>))

(***************************************************************************)
(* A Node on the wire (src/types.go:66-76, src/client.go:240-246):         *)
(* json.Marshal writes the members tag, attrs, children and Content, each  *)
(* left out when empty, with every string coerced to valid UTF-8;          *)
(* json.Unmarshal reads them back into a Node.  The strings of these Nodes *)
(* are sequences of characters, <<>> the empty string.                     *)
(***************************************************************************)
\* Node{}
ZeroNode == [Tag |-> <<>>, Attrs |-> [isNil |-> TRUE, kv |-> <<>>],
             Children |-> <<>>, Content |-> <<>>]

\* the member of a field tagged omitempty: none when the field is empty
OmitEmpty(empty, k, v) == IF empty THEN <<>> ELSE <<Mem(k, v)>>

\* json.Marshal of a map[string]string: the keys sorted by their bytes,
\* then each key and its value written as valid UTF-8
MarshalAttrs(kv) ==
    LET keys == SortKeys(DOMAIN kv)
    IN  JObj([i \in 1..Len(keys) |->
                 Mem(toValidUTF8(keys[i]), JStr(toValidUTF8(kv[keys[i]])))])

\* variant: the Content field is not written
RECURSIVE MarshalNodeNoContent(_)
MarshalNodeNoContent(n) ==
    JObj(OmitEmpty(n.Tag = <<>>, k_tag, JStr(toValidUTF8(n.Tag)))
         \o OmitEmpty(DOMAIN n.Attrs.kv = {}, k_attrs, MarshalAttrs(n.Attrs.kv))
         \o OmitEmpty(Len(n.Children) = 0, k_children,
                      JArr([i \in 1..Len(n.Children) |->
                               MarshalNodeNoContent(n.Children[i])])))

\* json.Marshal(n) for a Node n: the fields in the order of the struct
RECURSIVE MarshalNode(_)
MarshalNode(n) ==
    JObj(OmitEmpty(n.Tag = <<>>, k_tag, JStr(toValidUTF8(n.Tag)))
         \o OmitEmpty(DOMAIN n.Attrs.kv = {}, k_attrs, MarshalAttrs(n.Attrs.kv))
         \o OmitEmpty(Len(n.Children) = 0, k_children,
                      JArr([i \in 1..Len(n.Children) |->
                               MarshalNode(n.Children[i])]))
         \o OmitEmpty(n.Content = <<>>, k_Content,
                      JStr(toValidUTF8(n.Content))))

\* the Node a decoded struct with the fields of Node is
RECURSIVE NodeOf(_)
NodeOf(val) ==
    [Tag |-> Field(val, k_tag, <<>>),
     Attrs |-> IF k_attrs \in DOMAIN val
               THEN [isNil |-> FALSE, kv |-> val[k_attrs].v]
               ELSE [isNil |-> TRUE, kv |-> <<>>],
     Children |-> IF k_children \in DOMAIN val
                  THEN [i \in 1..val[k_children].len |->
                           NodeOf(val[k_children].mem[i])]
                  ELSE <<>>,
     Content |-> Field(val, k_Content, <<>>)]

\* json.Unmarshal(j, &node) for a zero Node: the error and the Node
UnmarshalNode(j) ==
    LET d == Unmarshal(j, NodeFields)
    IN  [err |-> d.err, val |-> NodeOf(d.val)]

(***************************************************************************)
(* The API methods (src/client.go:266-502): each validates its request,    *)
(* calls doRequest and hands the response to parseResponse.                *)
(***************************************************************************)
\* the struct the method decodes the result into
ResultFields(m) ==
    CASE m \in {"CreateAccount", "EditAccountInfo", "GetAccountInfo"} -> AccountFields
      [] m \in {"CreatePage", "EditPage", "GetPage"} -> PageFields
      [] m = "GetPageList" -> PageListFields
      [] m = "GetViews" -> PageViewsFields

NoRequest == [none |-> TRUE]

\* the method has not returned
NoReturn == [kind |-> "none"]

\* return value, err
Returned(value, err) == [kind |-> "returned", value |-> value, err |-> err]

\* variant: the request is dispatched before it is validated
CallMethodDispatchFirst(p, m, r) ==
    /\ pc[p] = "idle"
    /\ method[p] = ""
    /\ method' = Set(method, p, m)
    /\ req' = Set(req, p, r)
    /\ apiRet' = Set(apiRet, p, NoReturn)
    /\ Enter(p)
    /\ UNCHANGED <<delayVars, parseVars, convVars, pureVars>>

\* the method is called: a request that fails Validate is answered at once,
\* any other enters doRequest
CallMethod(p, m, r) ==
    /\ pc[p] = "idle"
    /\ method[p] = ""
    /\ method' = Set(method, p, m)
    /\ req' = Set(req, p, r)
    /\ IF Validate(m, r) # Nil
       THEN /\ apiRet' = Set(apiRet, p, Returned(Zero, Validate(m, r)))
            /\ UNCHANGED <<clientVars, procVars>>
       ELSE /\ apiRet' = Set(apiRet, p, NoReturn)
            /\ Enter(p)
    /\ UNCHANGED <<delayVars, parseVars, convVars, pureVars>>

\* ctx.Err().Error()
CtxErrText(e) ==
    IF e = "canceled" THEN "context canceled" ELSE "context deadline exceeded"

\* the error of httpClient.Do, a *url.Error: Op "URL": Err
DoErrChain(cause) ==
    <<"%s \"%s\"",
      IF cause.kind = "ctxerr" THEN CtxErrText(cause.err) ELSE "network error">>

\* err.Error() for an error an API method returns, as the chain of messages
\* that %w wrapping joins with ": " (the outermost first)
ErrorChain(err) ==
    CASE err.kind = "nil" -> <<>>
      [] err.kind = "error" -> <<err.msg>>
      [] err.kind = "APIError" ->
            <<IF err.Code # 0 THEN "Telegraph API error (code %d)"
              ELSE "Telegraph API error", err.Description>>
      [] err.kind = "ratelimit" ->
            <<"rate limiting failed", CtxErrText(err.cause.kind)>>
      [] err.kind = "ctx" -> <<CtxErrText(err.cause.kind)>>
      [] err.kind = "exhausted" ->
            <<"request failed after %d attempts">> \o
                (CASE err.cause.kind = "status" -> <<"received status code %d">>
                   [] err.cause.kind = "nil" -> <<"%!w(<nil>)">>
                   [] OTHER -> DoErrChain(err.cause))
      [] err.kind = "failed" -> <<"request failed">> \o DoErrChain(err.cause)
      [] err.kind = "create" ->
            <<"failed to create request", "parse \"%s\"", err.cause.err>>

\* what an API method leaves alone once doRequest has returned
afterDispatch ==
    <<clientVars, pc, ctxDone, attempt, delay, timerFired, calls, sent, taken,
      history, bodyBuf, lastErr, result, queued>>

\* variant: a status-200 response that parseResponse rejects is sent again
MethodReturnRetriesDecode(p, body, readErr) ==
    /\ pc[p] = "done"
    /\ method[p] # ""
    /\ apiRet[p] = NoReturn
    /\ IF result[p].kind = "resp"
       THEN LET out == parseResponse(Response(result[p].status, body, readErr),
                                     ResultFields(method[p]))
            IN  /\ closes' = Set(closes, p, CloseBody(closes[p], Len(closes[p])))
                /\ IF /\ result[p].status = 200
                      /\ out.err # Nil
                      /\ MoreAttempts(cfg, attempt[p] + 1)
                   THEN /\ pc' = Set(pc, p, "inflight")
                        /\ attempt' = Set(attempt, p, attempt[p] + 1)
                        /\ calls' = Set(calls, p, calls[p] + 1)
                        /\ sent' = Set(sent, p,
                                      Append(sent[p],
                                             NewRequest(DispatchURL(p),
                                                        bodyBuf[p])))
                        /\ result' = Set(result, p, NoResult)
                        /\ UNCHANGED <<clientVars, ctxDone, delay, timerFired,
                                       taken, history, bodyBuf, lastErr, queued,
                                       apiRet>>
                   ELSE /\ apiRet' = Set(apiRet, p, Returned(IF out.err = Nil THEN out.value ELSE Zero, out.err))
                        /\ UNCHANGED afterDispatch
       ELSE /\ apiRet' = Set(apiRet, p, Returned(Zero, result[p]))
            /\ UNCHANGED <<afterDispatch, closes>>
    /\ UNCHANGED <<method, req, delayVars, parseVars, convVars, pureVars>>

\* doRequest has returned: its error is returned as it is, its response goes
\* through parseResponse, which closes the body when it returns; the method
\* returns the result only when parseResponse returned nil
MethodReturn(p, body, readErr) ==
    /\ pc[p] = "done"
    /\ method[p] # ""
    /\ apiRet[p] = NoReturn
    /\ IF result[p].kind = "resp"
       THEN LET out == parseResponse(Response(result[p].status, body, readErr),
                                     ResultFields(method[p]))
            IN  /\ apiRet' = Set(apiRet, p, Returned(IF out.err = Nil THEN out.value ELSE Zero, out.err))
                /\ closes' = Set(closes, p, CloseBody(closes[p], Len(closes[p])))
       ELSE /\ apiRet' = Set(apiRet, p, Returned(Zero, result[p]))
            /\ closes' = closes
    /\ UNCHANGED <<afterDispatch, method, req, delayVars, parseVars, convVars,
                   pureVars>>

(***************************************************************************)
(* The HTML converter (src/types.go:976-1170).  A document is the tree     *)
(* html.Parse returns: a node has a Type ("document", "element", "text",   *)
(* "comment"), its Data (the tag name or the text), its Attr list and its  *)
(* children in order.                                                      *)
(***************************************************************************)
HTMLNode(type, data, attr, kids) ==
    [Type |-> type, Data |-> data, Attr |-> attr, Kids |-> kids]

TextNode(data) == HTMLNode("text", data, <<>>, <<>>)

CommentNode(data) == HTMLNode("comment", data, <<>>, <<>>)

Element(tag, attr, kids) == HTMLNode("element", tag, attr, kids)

Attribute(key, val) == [Key |-> key, Val |-> val]

\* a nil map[string]string, and a map that was made
NilAttrs == [isNil |-> TRUE, kv |-> <<>>]

MakeAttrs(kv) == [isNil |-> FALSE, kv |-> kv]

\* Node{Tag: tag, Attrs: attrs, Children: children, Content: content}
Node(tag, attrs, children, content) ==
    [Tag |-> tag, Attrs |-> attrs, Children |-> children, Content |-> content]

\* a child that is a bare string: node.Children[i] = ch.Content
StringChild(s) == [String |-> s]

supportedTags ==
    {"a", "aside", "b", "blockquote", "br", "code", "em", "figcaption",
     "figure", "h3", "h4", "hr", "i", "iframe", "img", "li", "ol", "p", "pre",
     "s", "strong", "u", "ul", "video"}

\* variant: a heading moves down one level at a time
mapTagHeadingDown(tag) ==
    CASE tag = "h1" -> "h2"
      [] tag = "h2" -> "h3"
      [] tag = "b" -> "strong"
      [] tag = "i" -> "em"
      [] tag \in {"ul", "ol", "li"} -> tag
      [] tag \in {"div", "span"} -> "p"
      [] OTHER -> IF tag \in supportedTags THEN tag ELSE "p"

\* variant: a tag that is not supported is kept as it is
mapTagKeepsUnknown(tag) ==
    CASE tag \in {"h1", "h2"} -> "h3"
      [] tag = "b" -> "strong"
      [] tag = "i" -> "em"
      [] tag \in {"ul", "ol", "li"} -> tag
      [] tag \in {"div", "span"} -> "p"
      [] OTHER -> tag

\* variant: the case of "b" is missing from the switch
mapTagKeepsBold(tag) ==
    CASE tag \in {"h1", "h2"} -> "h3"
      [] tag = "i" -> "em"
      [] tag \in {"ul", "ol", "li"} -> tag
      [] tag \in {"div", "span"} -> "p"
      [] OTHER -> IF tag \in supportedTags THEN tag ELSE "p"

mapTag(tag) ==
    CASE tag \in {"h1", "h2"} -> "h3"
      [] tag = "b" -> "strong"
      [] tag = "i" -> "em"
      [] tag \in {"ul", "ol", "li"} -> tag
      [] tag \in {"div", "span"} -> "p"
      [] OTHER -> IF tag \in supportedTags THEN tag ELSE "p"

\* variant: only script elements are skipped
isSkippedScriptOnly(data) == data = "script"

\* child.Data == "script" || child.Data == "style"
isSkipped(data) == data = "script" \/ data = "style"

\* variant: every attribute is copied
isKeptAttrAny(key) == TRUE

\* a.Key == "href" || a.Key == "src"
isKeptAttr(key) == key = "href" \/ key = "src"

\* the attributes of the node made for an element with attribute list attr:
\* nil without attributes, otherwise a map of the kept keys, the last
\* occurrence of a key giving its value
attrsOf(attr) ==
    IF Len(attr) = 0 THEN NilAttrs
    ELSE LET kept == {i \in 1..Len(attr) : isKeptAttr(attr[i].Key)}
             last(k) == CHOOSE i \in kept :
                           /\ attr[i].Key = k
                           /\ \A j \in kept : attr[j].Key = k => j <= i
         IN  MakeAttrs([k \in {attr[i].Key : i \in kept} |-> attr[last(k)].Val])

\* node.Children: a converted child that is a bare text becomes its string
childrenOf(children) ==
    [i \in 1..Len(children) |->
        IF /\ children[i].Content # ""
           /\ children[i].Tag = ""
           /\ children[i].Attrs = NilAttrs
           /\ children[i].Children = <<>>
        THEN StringChild(children[i].Content)
        ELSE children[i]]

\* variant: a converted node is put in front of the earlier ones
appendNodeFront(nodes, node) == <<node>> \o nodes

\* nodes = append(nodes, node)
appendNode(nodes, node) == Append(nodes, node)

RECURSIVE htmlNodeToTelegraphNodes(_)
RECURSIVE convertFrom(_, _, _)

\* the loop of htmlNodeToTelegraphNodes from the i-th child on, "nodes"
\* holding what the earlier children gave
convertFrom(kids, i, nodes) ==
    IF i > Len(kids) THEN nodes
    ELSE LET child == kids[i]
         IN  IF child.Type = "text"
             THEN IF child.Data # ""
                  THEN convertFrom(kids, i + 1,
                           appendNode(nodes, Node("", NilAttrs, <<>>, child.Data)))
                  ELSE convertFrom(kids, i + 1, nodes)
             ELSE IF child.Type # "element" THEN convertFrom(kids, i + 1, nodes)
             ELSE IF isSkipped(child.Data) THEN convertFrom(kids, i + 1, nodes)
             ELSE convertFrom(kids, i + 1,
                      appendNode(nodes,
                          Node(mapTag(child.Data), attrsOf(child.Attr),
                               childrenOf(htmlNodeToTelegraphNodes(child)), "")))

htmlNodeToTelegraphNodes(n) == convertFrom(n.Kids, 1, <<>>)

\* the nodes of the tree under n in document order, n first
RECURSIVE Preorder(_)
RECURSIVE PreorderFrom(_, _)
PreorderFrom(kids, i) ==
    IF i > Len(kids) THEN <<>>
    ELSE Preorder(kids[i]) \o PreorderFrom(kids, i + 1)

Preorder(n) == <<n>> \o PreorderFrom(n.Kids, 1)

\* the value of the attribute key of a meta element: the last one wins
RECURSIVE attrVal(_, _, _)
attrVal(attr, key, i) ==
    IF i = 0 THEN ""
    ELSE IF attr[i].Key = key THEN attr[i].Val
    ELSE attrVal(attr, key, i - 1)

\* Page{}: the fields the converter fills
EmptyPage ==
    [Title |-> "", AuthorName |-> "", AuthorURL |-> "", Description |-> "",
     Content |-> <<>>]

\* what the closure f of extractMetadata does to page at node n
visitMetadata(page, n) ==
    LET p1 == IF n.Type = "element" /\ n.Data = "title" /\ Len(n.Kids) > 0
              THEN [page EXCEPT !.Title = n.Kids[1].Data]
              ELSE page
        name == attrVal(n.Attr, "name", Len(n.Attr))
        content == attrVal(n.Attr, "content", Len(n.Attr))
    IN  IF n.Type = "element" /\ n.Data = "meta"
        THEN CASE name = "author" ->
                    IF p1.AuthorName = "" THEN [p1 EXCEPT !.AuthorName = content]
                    ELSE p1
               [] name = "url" ->
                    IF p1.AuthorURL = "" THEN [p1 EXCEPT !.AuthorURL = content]
                    ELSE p1
               [] name = "description" -> [p1 EXCEPT !.Description = content]
               [] OTHER -> p1
        ELSE p1

RECURSIVE visitAll(_, _, _)
visitAll(page, nodes, i) ==
    IF i > Len(nodes) THEN page
    ELSE visitAll(visitMetadata(page, nodes[i]), nodes, i + 1)

\* opts *HTMLToPageOptions: nil, or the two overrides
NilOptions == [isNil |-> TRUE, AuthorName |-> "", AuthorURL |-> ""]

HTMLToPageOptions(authorName, authorURL) ==
    [isNil |-> FALSE, AuthorName |-> authorName, AuthorURL |-> authorURL]

\* variant: an override is applied only where the document gave nothing
extractMetadataKeepsExtracted(doc, page, opts) ==
    LET p1 == visitAll(page, Preorder(doc), 1)
        p2 == IF ~opts.isNil /\ opts.AuthorName # "" /\ p1.AuthorName = ""
              THEN [p1 EXCEPT !.AuthorName = opts.AuthorName] ELSE p1
    IN  IF ~opts.isNil /\ opts.AuthorURL # "" /\ p2.AuthorURL = ""
        THEN [p2 EXCEPT !.AuthorURL = opts.AuthorURL] ELSE p2

extractMetadata(doc, page, opts) ==
    LET p1 == visitAll(page, Preorder(doc), 1)
        p2 == IF ~opts.isNil /\ opts.AuthorName # ""
              THEN [p1 EXCEPT !.AuthorName = opts.AuthorName] ELSE p1
    IN  IF ~opts.isNil /\ opts.AuthorURL # ""
        THEN [p2 EXCEPT !.AuthorURL = opts.AuthorURL] ELSE p2

\* the body elements the closure f of parseHTMLBody assigns to body, in
\* order: f does not descend into a body element
RECURSIVE bodiesOf(_)
RECURSIVE bodiesFrom(_, _)
bodiesFrom(kids, i) ==
    IF i > Len(kids) THEN <<>>
    ELSE bodiesOf(kids[i]) \o bodiesFrom(kids, i + 1)

bodiesOf(n) ==
    IF n.Type = "element" /\ n.Data = "body" THEN <<n>>
    ELSE bodiesFrom(n.Kids, 1)

\* parseHTMLBody(doc): the nodes and the error
parseHTMLBody(doc) ==
    LET found == bodiesOf(doc)
    IN  IF found = <<>>
        THEN [nodes |-> <<>>, err |-> Errorf("HTML document has no body tag")]
        ELSE [nodes |-> htmlNodeToTelegraphNodes(found[Len(found)]), err |-> Nil]

\* ConvertHTMLToPage from the tree html.Parse returned: the page and the
\* error
ConvertHTMLToPage(doc, opts) ==
    LET page == extractMetadata(doc, EmptyPage, opts)
        body == parseHTMLBody(doc)
    IN  IF body.err # Nil
        THEN [isNil |-> TRUE, page |-> EmptyPage,
              err |-> Errorf("failed to parse HTML body: " \o body.err.msg)]
        ELSE [isNil |-> FALSE, page |-> [page EXCEPT !.Content = body.nodes],
              err |-> Nil]

(***************************************************************************)
(* Specification of the request pipeline: one goroutine issues dispatches  *)
(* one after another through a client built by NewClient with              *)
(* WithRetryConfig and WithRateLimit.                                      *)
(***************************************************************************)
\* WithRetryConfig: the default delays with MaxRetries from -1 to the bound
\* (the option stores the value as it is given)
RetryConfigs ==
    {[DefaultRetryConfig EXCEPT !.MaxRetries = m] : m \in -1..MaxRetriesBound}

\* requests per second given to WithRateLimit
RateOptions == {Frac(1, 2), Frac(1, 1), Frac(2, 1)}

\* parseResponse and ConvertHTMLToPage have not been called
NoResponse == [none |-> TRUE]

NotParsed == [none |-> TRUE]

NoDocument == [none |-> TRUE]

NotConverted == [none |-> TRUE]

NotValidated == [none |-> TRUE]

NoNode == [none |-> TRUE]

NotDecoded == [none |-> TRUE]

\* nothing is in progress: the goroutines in "active" are about to call
QuietProcs(active) ==
    /\ pc = [p \in Procs |-> IF p \in active THEN "idle" ELSE "off"]
    /\ ctxDone = [p \in Procs |-> FALSE]
    /\ attempt = [p \in Procs |-> 0]
    /\ delay = [p \in Procs |-> I64(0)]
    /\ timerFired = [p \in Procs |-> FALSE]
    /\ calls = [p \in Procs |-> 0]
    /\ taken = [p \in Procs |-> 0]
    /\ history = [p \in Procs |-> <<>>]
    /\ lastErr = [p \in Procs |-> NoErr]
    /\ result = [p \in Procs |-> NoResult]
    /\ queued = [p \in Procs |-> 0]
    /\ attemptArg = 0
    /\ delayOut = I64(0)
    /\ delayPrev = I64(0)
    /\ method = [p \in Procs |-> ""]
    /\ req = [p \in Procs |-> NoRequest]
    /\ apiRet = [p \in Procs |-> NoReturn]
    /\ parseIn = NoResponse
    /\ parseOut = NotParsed
    /\ htmlDoc = NoDocument
    /\ convOut = NotConverted
    /\ valIn = NoRequest
    /\ valOut = NotValidated
    /\ nodeIn = NoNode
    /\ nodeOut = NotDecoded
    /\ bodyBuf = [p \in Procs |-> NilReader]
    /\ sent = [p \in Procs |-> <<>>]
    /\ closes = [p \in Procs |-> <<>>]

\* HTTP clients given to WithHTTPClient
HTTPClientOptions == {[Timeout |-> 10], [Timeout |-> 0]}

\* NewClient(opts...): the defaults, then the options in the order given;
\* us and hs are the arguments of the WithBaseURL and of the WithHTTPClient
\* options among them
NewClient(us, hs) ==
    /\ baseURL = IF us = <<>> THEN DefaultBaseURL ELSE WithBaseURL(us[Len(us)])
    /\ httpClient = IF hs = <<>> THEN DefaultHTTPClient
                    ELSE WithHTTPClient(hs[Len(hs)])

\* NewClient with WithBaseURL and WithHTTPClient among its options
CustomClient ==
    \E u \in BaseURLOptions : \E h \in HTTPClientOptions : NewClient(<<u>>, <<h>>)

\* no dispatch has been issued through the client
Unused(active) ==
    /\ now = 0
    /\ started = 0
    /\ acquired = 0
    /\ QuietProcs(active)

\* a client that has just been built without WithBaseURL and WithHTTPClient
Quiet(active) ==
    /\ NewClient(<<>>, <<>>)
    /\ Unused(active)

Init ==
    \/ /\ cfg \in RetryConfigs
       /\ lim \in {WithRateLimit(rps) : rps \in RateOptions}
       /\ retired = {}
       /\ Quiet({"p1"})
    \/ /\ cfg = [DefaultRetryConfig EXCEPT !.MaxRetries = 1]
       /\ lim = WithRateLimit(Frac(1, 1))
       /\ retired = {}
       /\ CustomClient
       /\ Unused({"p1"})

Next ==
    \/ Tick
    \/ \E p \in Procs : Start(p)
    \/ \E p \in Procs : StartCancelled(p)
    \/ \E p \in Procs : Cancel(p)
    \/ \E p \in Procs : WaitBegin(p)
    \/ \E p \in Procs : WaitWake(p)
    \/ \E p \in Procs : WaitCancel(p)
    \/ \E p \in Procs : TimerFire(p)
    \/ \E p \in Procs : BackoffCancelled(p)
    \/ \E p \in Procs : BackoffElapsed(p)
    \/ \E p \in Procs : \E o \in ServerOutcomes : Receive(p, o)
    \/ \E p \in Procs : ReceiveCtxErr(p)

Spec == Init /\ [][Next]_vars

\* time passes, every timer delivers, every call of httpClient.Do returns or
\* fails, and a goroutine that can take its next step in doRequest is
\* scheduled.  The last two conjuncts are weak fairness of Receive and of
\* ReceiveCtxErr written out, []<>~ENABLED <<A>>_vars \/ []<><<A>>_vars:
\* either step is enabled exactly when its guard on pc and ctxDone holds
FairDispatch ==
    /\ WF_vars(Tick)
    /\ \A p \in Procs :
          /\ WF_vars(WaitBegin(p))
          /\ WF_vars(WaitWake(p))
          /\ WF_vars(WaitCancel(p))
          /\ WF_vars(TimerFire(p))
          /\ WF_vars(BackoffElapsed(p))
          /\ \/ []<>~(pc[p] = "inflight" /\ ~ctxDone[p])
             \/ []<><<\E o \in ServerOutcomes : Receive(p, o)>>_vars
          /\ \/ []<>~(pc[p] = "inflight" /\ ctxDone[p])
             \/ []<><<ReceiveCtxErr(p)>>_vars

\* a client that has served all but one of its dispatches: its bucket is
\* full, or the token was taken just now
InitLast ==
    /\ \/ cfg \in RetryConfigs /\ NewClient(<<>>, <<>>)
       \/ cfg = [DefaultRetryConfig EXCEPT !.MaxRetries = 1] /\ CustomClient
    /\ lim \in {WithRateLimit(Frac(1, 1)), Take(WithRateLimit(Frac(1, 1)), "p1", 0)}
    /\ retired = {}
    /\ now = 0
    /\ started = MaxDispatches - 1
    /\ acquired = MaxDispatches - 1
    /\ QuietProcs({"p1"})

SpecLast == InitLast /\ [][Next]_vars

SpecLastFair == SpecLast /\ FairDispatch

(***************************************************************************)
(* Specification of calculateDelay on its own: a retry configuration is    *)
(* drawn and the delay is computed for attempt 1, 2, ... in turn, as the   *)
(* retry loop does.                                                        *)
(***************************************************************************)
DelayConfigs ==
    {RetryConfig(3, i, m, f) :
        i \in {I64(0), I64(1), Millisecond, Mul64(I64(100), Millisecond),
               I64(-1000000)},
        m \in {Mul64(I64(10), Millisecond), Mul64(I64(5), Second), I64(-1)},
        f \in {Frac(1, 2), Frac(1, 1), Frac(3, 2), Frac(2, 1), Frac(3, 1),
               Frac(-2, 1)}}

InitDelay ==
    /\ cfg \in DelayConfigs
    /\ lim = WithRateLimit(Frac(1, 1))
    /\ retired = {}
    /\ Quiet({})

CalcDelay ==
    /\ attemptArg < MaxAttempt
    /\ attemptArg' = attemptArg + 1
    /\ delayPrev' = delayOut
    /\ delayOut' = calculateDelay(cfg, attemptArg + 1)
    /\ UNCHANGED <<clientVars, procVars, apiVars, parseVars, convVars, pureVars>>

NextDelay == CalcDelay

SpecDelay == InitDelay /\ [][NextDelay]_vars

(***************************************************************************)
(* Specification of the API methods: one goroutine calls a method of the   *)
(* client, with a request that passes or a request that fails validation.  *)
(***************************************************************************)
AccessToken == <<"t", "o", "k">>

HomeURL == <<"h", "t", "t", "p", "s", ":", "/", "/", "e", "x", ".", "c", "o">>

BadURL == <<"f", "t", "p", ":", "/", "/", "e", "x">>

\* one paragraph: {Tag: "p", Children: {{Content: "Hi"}}}
SomeContent == <<[Tag |-> "p", Children |-> <<[Content |-> "Hi"]>>]>>

Requests(m) ==
    CASE m = "CreateAccount" ->
            {[ShortName |-> s, AuthorName |-> a, AuthorURL |-> u] :
                s \in {<<>>, <<"a">>, Repeat("a", 33)},
                a \in {<<>>, Repeat("n", 129)},
                u \in {<<>>, HomeURL, BadURL, Repeat("u", 513)}}
      [] m = "EditAccountInfo" ->
            {[AccessToken |-> t, ShortName |-> s, AuthorName |-> a, AuthorURL |-> u] :
                t \in {<<>>, AccessToken},
                s \in {<<>>, Repeat("a", 33)},
                a \in {<<>>, Repeat("n", 129)},
                u \in {<<>>, BadURL}}
      [] m = "GetAccountInfo" ->
            {[AccessToken |-> t, Fields |-> f] :
                t \in {<<>>, AccessToken},
                f \in {<<>>, <<"short_name", "page_count">>,
                       <<"short_name", "views", "rank">>}}
      [] m = "CreatePage" ->
            {[AccessToken |-> t, Title |-> ti, AuthorName |-> a, AuthorURL |-> u,
              Content |-> c, ReturnContent |-> FALSE] :
                t \in {<<>>, AccessToken},
                ti \in {<<>>, <<"T">>, Repeat("T", 257)},
                a \in {<<>>, Repeat("n", 129)},
                u \in {<<>>, BadURL},
                c \in {<<>>, SomeContent}}
      [] m = "EditPage" ->
            {[AccessToken |-> t, Path |-> pa, Title |-> ti, AuthorName |-> <<>>,
              AuthorURL |-> u, Content |-> c, ReturnContent |-> TRUE] :
                t \in {<<>>, AccessToken},
                pa \in {<<>>, PagePath},
                ti \in {<<>>, <<"T">>, Repeat("T", 257)},
                u \in {<<>>, Repeat("u", 513)},
                c \in {<<>>, SomeContent}}
      [] m = "GetPage" ->
            {[Path |-> pa, ReturnContent |-> rc] :
                pa \in PagePaths, rc \in BOOLEAN}
      [] m = "GetPageList" ->
            {[AccessToken |-> t, Offset |-> o, Limit |-> l] :
                t \in {<<>>, AccessToken},
                o \in {-1, 0},
                l \in {-1, 50, 201}}
      [] m = "GetViews" ->
            {[Path |-> pa, Year |-> y, Month |-> mo, Day |-> d, Hour |-> h] :
                pa \in {<<>>, PagePath},
                y \in {0, 1999, 2023},
                mo \in {0, 13},
                d \in {0, 32},
                h \in {0, 25}}

\* the client is new, with or without WithBaseURL among its options, or one
\* earlier dispatch has taken the token of its bucket and returned
InitAPI ==
    /\ cfg = [DefaultRetryConfig EXCEPT !.MaxRetries = 1]
    /\ now = 0
    /\ \/ /\ NewClient(<<>>, <<>>)
          /\ lim = WithRateLimit(Frac(1, 1))
          /\ retired = {}
          /\ started = 0
          /\ acquired = 0
       \/ /\ \E u \in BaseURLOptions : NewClient(<<u>>, <<>>)
          /\ lim = WithRateLimit(Frac(1, 1))
          /\ retired = {}
          /\ started = 0
          /\ acquired = 0
       \/ /\ NewClient(<<>>, <<>>)
          /\ lim = Take(WithRateLimit(Frac(1, 1)), "p1", 0)
          /\ retired = {}
          /\ started = 1
          /\ acquired = 1
    /\ QuietProcs({"p1"})

NextAPI ==
    \/ Tick
    \/ \E p \in Procs : \E m \in Methods : \E r \in Requests(m) : CallMethod(p, m, r)
    \/ \E p \in Procs : \E b \in Bodies : \E rd \in BOOLEAN : MethodReturn(p, b, rd)
    \/ \E p \in Procs : Cancel(p)
    \/ \E p \in Procs : WaitBegin(p)
    \/ \E p \in Procs : WaitWake(p)
    \/ \E p \in Procs : WaitCancel(p)
    \/ \E p \in Procs : TimerFire(p)
    \/ \E p \in Procs : BackoffCancelled(p)
    \/ \E p \in Procs : BackoffElapsed(p)
    \/ \E p \in Procs : \E o \in {Resp(200), Resp(400), Resp(500)} : Receive(p, o)
    \/ \E p \in Procs : ReceiveCtxErr(p)

SpecAPI == InitAPI /\ [][NextAPI]_vars

(***************************************************************************)
(* Specification of parseResponse on its own: a response is drawn and      *)
(* parsed into the result struct of one of the API methods.                *)
(***************************************************************************)
ParseStatusCodes == {200, 201, 204, 301, 400, 401, 404, 429, 500, 503}

InitParse ==
    /\ cfg = DefaultRetryConfig
    /\ lim = WithRateLimit(Frac(1, 1))
    /\ retired = {}
    /\ Quiet({})

\* a response arrives for a call of method m
Respond(m, status, body, readErr) ==
    /\ parseIn = NoResponse
    /\ parseIn' = [resp |-> Response(status, body, readErr), method |-> m]
    /\ UNCHANGED <<clientVars, procVars, delayVars, apiVars, parseOut, convVars,
                 pureVars>>

\* parseResponse runs on it
Parse ==
    /\ parseIn # NoResponse
    /\ parseOut = NotParsed
    /\ parseOut' = parseResponse(parseIn.resp, ResultFields(parseIn.method))
    /\ UNCHANGED <<clientVars, procVars, delayVars, apiVars, parseIn, convVars,
                 pureVars>>

NextParse ==
    \/ \E m \in Methods : \E s \in ParseStatusCodes :
          \E b \in Bodies \cup {InvalidUTF8Body} :
             \E rd \in BOOLEAN : Respond(m, s, b, rd)
    \/ Parse

SpecParse == InitParse /\ [][NextParse]_vars

(***************************************************************************)
(* Specification of the HTML converter: a parsed document is handed to     *)
(* ConvertHTMLToPage, which converts it.  The documents are trees the HTML *)
(* parser builds: one html element holding a head and a body, no two text  *)
(* nodes next to each other, raw text only under script and style.         *)
(***************************************************************************)
\* the largest number of nodes below body in the generated trees
MaxNodes == 4

\* the largest number of attributes of a generated element
MaxAttrs == 2

Texts == {"Hello", "  spaced  "}

ScriptText == "evil()"

StyleText == "p{color:red}"

\* the elements whose content the parser reads as raw text
RawElements ==
    {Element("script", <<>>, <<TextNode(ScriptText)>>),
     Element("style", <<>>, <<TextNode(StyleText)>>)}

ContainerTags == {"div", "b"}

RECURSIVE Size(_)
RECURSIVE SizeFrom(_, _)
SizeFrom(kids, i) ==
    IF i > Len(kids) THEN 0 ELSE Size(kids[i]) + SizeFrom(kids, i + 1)

Size(n) == 1 + SizeFrom(n.Kids, 1)

\* the trees of at most n nodes, and the sequences of trees of at most n
\* nodes in total
RECURSIVE Trees(_)
RECURSIVE Forests(_)
Trees(n) ==
    IF n = 0 THEN {}
    ELSE {TextNode(s) : s \in Texts}
             \cup {r \in RawElements : Size(r) <= n}
             \cup {Element(t, <<>>, k) : t \in ContainerTags, k \in Forests(n - 1)}

Forests(n) ==
    {<<>>} \cup
    UNION {{<<t>> \o f : f \in {g \in Forests(n - Size(t)) :
                                   ~(/\ t.Type = "text"
                                     /\ g # <<>>
                                     /\ g[1].Type = "text")}} :
           t \in Trees(n)}

\* the tag names the converter is tried on
TagNames ==
    supportedTags \cup
    {"h1", "h2", "div", "span", "section", "article", "table", "h5", "mark",
     "script", "style"}

VoidTags == {"br", "hr", "img"}

AttrPool ==
    {Attribute("href", "https://example.com/"), Attribute("src", "pic.png"),
     Attribute("class", "lead"), Attribute("id", "x"),
     Attribute("href", "#second")}

RECURSIVE AttrLists(_)
AttrLists(n) ==
    IF n = 0 THEN {<<>>}
    ELSE AttrLists(n - 1)
             \cup {Append(l, a) : l \in AttrLists(n - 1), a \in AttrPool}

\* the children of body
BodyContents ==
    Forests(MaxNodes)
        \cup {<<Element(t, <<>>,
                   IF t \in VoidTags THEN <<>>
                   ELSE IF t = "script" THEN <<TextNode(ScriptText)>>
                   ELSE IF t = "style" THEN <<TextNode(StyleText)>>
                   ELSE <<TextNode("Hello")>>)>> : t \in TagNames}
        \cup {<<Element("a", l, <<TextNode("Hello")>>)>> : l \in AttrLists(MaxAttrs)}
        \cup {<<Element("p", <<Attribute("class", "lead")>>,
                  <<TextNode("see "), Element("img", l, <<>>)>>)>> :
              l \in AttrLists(MaxAttrs)}
        \cup {<<CommentNode("note"), Element("h1", <<>>, <<TextNode("Hello")>>),
                CommentNode("note")>>}
        \cup {<<Element(t, <<>>,
                  <<TextNode("Hello"), r,
                    Element("i", <<>>, <<TextNode("  spaced  ")>>)>>)>> :
              t \in ContainerTags, r \in RawElements}
        \cup {<<Element("section", <<>>,
                  <<Element("p", <<>>,
                      <<Element("b", <<>>, <<TextNode("Hello")>>), r,
                        TextNode("  spaced  ")>>)>>)>> : r \in RawElements}

Meta(name, content) ==
    Element("meta", <<Attribute("name", name), Attribute("content", content)>>,
            <<>>)

\* the children of head
Heads ==
    {<<>>,
     <<Element("title", <<>>, <<TextNode("My Title")>>)>>,
     <<Element("title", <<>>, <<TextNode("My Title")>>),
       Meta("author", "Ann"), Meta("url", "https://example.com/ann"),
       Meta("description", "About")>>,
     <<Element("title", <<>>, <<TextNode("My Title")>>),
       Element("title", <<>>, <<TextNode("Second")>>)>>,
     <<Element("title", <<>>, <<>>),
       Element("title", <<>>, <<TextNode("My Title")>>)>>,
     <<Meta("description", "About"), Meta("description", "Later")>>,
     <<Meta("author", "Ann"), Meta("author", "Zoe"),
       Meta("url", "https://example.com/ann"),
       Meta("url", "https://example.com/zoe")>>,
     <<Meta("keywords", "a,b"), Meta("author", "Ann")>>}

Document(head, body) ==
    HTMLNode("document", "", <<>>,
        <<Element("html", <<>>,
            <<Element("head", <<>>, head), Element("body", <<>>, body)>>)>>)

\* a document without a body element: html.Parse builds it for a frameset
\* page
FramesetDocument(head) ==
    HTMLNode("document", "", <<>>,
        <<Element("html", <<>>,
            <<Element("head", <<>>, head), Element("frameset", <<>>, <<>>)>>)>>)

Options == {NilOptions, HTMLToPageOptions("Bob", ""),
            HTMLToPageOptions("", "https://example.com/bob"),
            HTMLToPageOptions("Bob", "https://example.com/bob")}

\* the calls of ConvertHTMLToPage that are tried
Conversions ==
    {[doc |-> Document(<<>>, b), opts |-> NilOptions] : b \in BodyContents}
        \cup {[doc |-> Document(h, <<Element("p", <<>>, <<TextNode("Hello")>>)>>),
               opts |-> o] : h \in Heads, o \in Options}
        \cup {[doc |-> FramesetDocument(h), opts |-> o] : h \in Heads, o \in Options}

InitConvert ==
    /\ cfg = DefaultRetryConfig
    /\ lim = WithRateLimit(Frac(1, 1))
    /\ retired = {}
    /\ Quiet({})

\* ConvertHTMLToPage is called and html.Parse has built the tree
ParseHTML(c) ==
    /\ htmlDoc = NoDocument
    /\ htmlDoc' = c
    /\ UNCHANGED <<clientVars, procVars, delayVars, apiVars, parseVars, convOut,
                 pureVars>>

\* the rest of ConvertHTMLToPage
Convert ==
    /\ htmlDoc # NoDocument
    /\ convOut = NotConverted
    /\ convOut' = ConvertHTMLToPage(htmlDoc.doc, htmlDoc.opts)
    /\ UNCHANGED <<clientVars, procVars, delayVars, apiVars, parseVars, htmlDoc,
                 pureVars>>

NextConvert ==
    \/ \E c \in Conversions : ParseHTML(c)
    \/ Convert

SpecConvert == InitConvert /\ [][NextConvert]_vars

(***************************************************************************)
(* Specification of request validation on its own: Validate is called on a *)
(* request of any of the API methods.                                      *)
(***************************************************************************)
\* the GetViews requests around the limits of every field
ViewsRequests ==
    {[Path |-> pa, Year |-> y, Month |-> mo, Day |-> d, Hour |-> h] :
        pa \in {<<>>, PagePath},
        y \in {-1, 0, 1999, 2000, 2100, 2101},
        mo \in {-1, 0, 1, 12, 13},
        d \in {-1, 0, 1, 31, 32},
        h \in {-1, 0, 24, 25}}

\* requests whose strings hold characters of more than one byte, on either
\* side of the limits
MultiByteRequests(m) ==
    CASE m = "CreateAccount" ->
            {[ShortName |-> sn, AuthorName |-> a, AuthorURL |-> <<>>] :
                sn \in {Repeat(SmallEAcute, 16), Repeat(SmallEAcute, 17)},
                a \in {<<>>, Repeat(KelvinSign, 42) \o <<"n", "n">>,
                       Repeat(KelvinSign, 43)}}
      [] m = "EditAccountInfo" ->
            {[AccessToken |-> AccessToken, ShortName |-> sn, AuthorName |-> <<>>,
              AuthorURL |-> <<>>] :
                sn \in {Repeat(SmallEAcute, 16), Repeat(SmallEAcute, 17)}}
      [] m = "CreatePage" ->
            {[AccessToken |-> AccessToken, Title |-> ti, AuthorName |-> <<>>,
              AuthorURL |-> <<>>, Content |-> SomeContent,
              ReturnContent |-> FALSE] :
                ti \in {Repeat(SmallEAcute, 128), Repeat(SmallEAcute, 129)}}
      [] m = "EditPage" ->
            {[AccessToken |-> AccessToken, Path |-> PagePath, Title |-> ti,
              AuthorName |-> <<>>, AuthorURL |-> <<>>, Content |-> SomeContent,
              ReturnContent |-> TRUE] :
                ti \in {Repeat(SmallEAcute, 128), Repeat(SmallEAcute, 129)}}
      [] OTHER -> {}

ValidatedRequests(m) ==
    IF m = "GetViews" THEN Requests(m) \cup ViewsRequests
    ELSE Requests(m) \cup MultiByteRequests(m)

InitValidate ==
    /\ cfg = DefaultRetryConfig
    /\ lim = WithRateLimit(Frac(1, 1))
    /\ retired = {}
    /\ Quiet({})

\* a request r of method m is built
BuildRequest(m, r) ==
    /\ valIn = NoRequest
    /\ valIn' = [method |-> m, req |-> r]
    /\ UNCHANGED <<clientVars, procVars, delayVars, apiVars, parseVars, convVars,
                   valOut, nodeIn, nodeOut>>

\* req.Validate() runs on it
RunValidate ==
    /\ valIn # NoRequest
    /\ valOut = NotValidated
    /\ valOut' = [err |-> Validate(valIn.method, valIn.req)]
    /\ UNCHANGED <<clientVars, procVars, delayVars, apiVars, parseVars, convVars,
                   valIn, nodeIn, nodeOut>>

NextValidate ==
    \/ \E m \in Methods : \E r \in ValidatedRequests(m) : BuildRequest(m, r)
    \/ RunValidate

SpecValidate == InitValidate /\ [][NextValidate]_vars

(***************************************************************************)
(* Specification of the Node round trip: a Node tree is built, marshalled  *)
(* and unmarshalled.                                                       *)
(***************************************************************************)
\* the largest number of children of a generated Node
MaxChildren == 2

NodeTexts == {<<"H", "i">>, <<" ", "x", " ">>, <<"a", InvalidByte>>}

NodeTags == {<<"p">>, <<"a">>}

\* the attributes of a Node: none, one, two of which one value is not
\* valid UTF-8, and one whose key is not valid UTF-8
NodeAttrs ==
    {[isNil |-> TRUE, kv |-> <<>>],
     [isNil |-> FALSE, kv |-> <<>>],
     [isNil |-> FALSE, kv |-> [k \in {k_href} |-> <<"u", "/", "1">>]],
     [isNil |-> FALSE,
      kv |-> [k \in {k_href, k_src} |-> IF k = k_src THEN <<"s", InvalidByte>>
                                        ELSE <<"u", "/", "1">>]],
     [isNil |-> FALSE, kv |-> [k \in {<<"i", "d", InvalidByte>>} |-> <<"x">>]]}

RECURSIVE SeqsUpTo(_, _)
SeqsUpTo(S, n) ==
    IF n = 0 THEN {<<>>}
    ELSE SeqsUpTo(S, n - 1) \cup {Append(q, x) : q \in SeqsUpTo(S, n - 1), x \in S}

TextLeaves == {[ZeroNode EXCEPT !.Content = t] : t \in NodeTexts}

ElementsOver(kids) ==
    {[Tag |-> t, Attrs |-> a, Children |-> k, Content |-> <<>>] :
        t \in NodeTags, a \in NodeAttrs, k \in kids}

ShallowNodes == {ZeroNode} \cup TextLeaves \cup ElementsOver({<<>>})

\* the Nodes that stand as children in the wide trees: the leaves, and the
\* elements without children that have no attribute, one attribute, or one
\* whose key is not valid UTF-8
ChildNodes ==
    {n \in ShallowNodes :
        \/ n.Attrs.isNil
        \/ DOMAIN n.Attrs.kv \in {{k_href}, {<<"i", "d", InvalidByte>>}}}

NodeTrees ==
    ShallowNodes
        \cup ElementsOver(SeqsUpTo(ChildNodes, MaxChildren))
        \cup ElementsOver({<<e>> : e \in ElementsOver({<<l>> : l \in TextLeaves})})

InitNode ==
    /\ cfg = DefaultRetryConfig
    /\ lim = WithRateLimit(Frac(1, 1))
    /\ retired = {}
    /\ Quiet({})

\* a Node tree is built
BuildNode(n) ==
    /\ nodeIn = NoNode
    /\ nodeIn' = n
    /\ UNCHANGED <<clientVars, procVars, delayVars, apiVars, parseVars, convVars,
                   valIn, valOut, nodeOut>>

\* it is marshalled and the text is unmarshalled into a new Node
RoundTrip ==
    /\ nodeIn # NoNode
    /\ nodeOut = NotDecoded
    /\ nodeOut' = [json |-> MarshalNode(nodeIn),
                   back |-> UnmarshalNode(MarshalNode(nodeIn))]
    /\ UNCHANGED <<clientVars, procVars, delayVars, apiVars, parseVars, convVars,
                   valIn, valOut, nodeIn>>

NextNode ==
    \/ \E n \in NodeTrees : BuildNode(n)
    \/ RoundTrip

SpecNode == InitNode /\ [][NextNode]_vars

(***************************************************************************)
(* Specification of concurrent dispatches: two goroutines issue dispatches *)
(* through one client whose bucket holds a single token.                   *)
(***************************************************************************)
InitConc ==
    /\ cfg = [DefaultRetryConfig EXCEPT !.MaxRetries = 1]
    /\ lim = WithRateLimit(Frac(1, 1))
    /\ retired = {}
    /\ Quiet(Procs)

NextConc ==
    \/ Tick
    \/ \E p \in Procs : Start(p)
    \/ \E p \in Procs : Cancel(p)
    \/ \E p \in Procs : WaitBegin(p)
    \/ \E p \in Procs : WaitWake(p)
    \/ \E p \in Procs : WaitCancel(p)
    \/ \E p \in Procs : TimerFire(p)
    \/ \E p \in Procs : BackoffCancelled(p)
    \/ \E p \in Procs : BackoffElapsed(p)
    \/ \E p \in Procs : \E o \in {Resp(200), Resp(500)} : Receive(p, o)
    \/ \E p \in Procs : ReceiveCtxErr(p)

SpecConc == InitConc /\ [][NextConc]_vars

\* time passes, and a goroutine the limiter can admit is scheduled
FairConc == WF_vars(Tick) /\ \A p \in Procs : WF_vars(WaitWake(p))

SpecConcFair == SpecConc /\ FairConc

(***************************************************************************)
(* An option applied to a client in use (src/client.go:75-103).  The       *)
(* options are exported and each returns a function that writes one field *)
(* of the client it is given, without taking c.mu, so a caller that        *)
(* keeps an option can apply it after NewClient has returned, also while   *)
(* doRequest runs.  The write races with the reads of doRequest: a field   *)
(* of one word (the pointers httpClient and rateLimiter) is read as the    *)
(* old or as the new value, a field of several words (the string baseURL,  *)
(* the struct retryConfig) also as a mixture of the two.                   *)
(***************************************************************************)
\* what WithRetryConfig(config) stores in c.retryConfig
WithRetryConfig(config) == config

\* the values given to the options that are applied late
LateHTTPClient == [Timeout |-> 10]

LateRetryConfig ==
    [DefaultRetryConfig EXCEPT !.MaxRetries = 0,
                               !.InitialDelay = Mul64(I64(200), Millisecond)]

LateRate == Frac(1, 1)

\* what a goroutine may read from a struct variable that holds old while
\* another goroutine writes new to it without synchronisation: each field
\* is that of old or that of new
TornStruct(old, new) ==
    {[f \in DOMAIN new |-> IF f \in S THEN new[f] ELSE old[f]] :
        S \in SUBSET DOMAIN new}

\* what no option changes
afterOption == <<now, started, acquired, ctxDone, attempt, delay, timerFired,
                 calls, sent, taken, history, bodyBuf, closes, lastErr,
                 result, queued, sideVars>>

\* WithBaseURL(u)(c): c.baseURL = strings.TrimSuffix(u, "/")
ApplyWithBaseURL(u) ==
    /\ baseURL' \in TornString(baseURL, WithBaseURL(u))
    /\ UNCHANGED <<cfg, httpClient, lim, retired, pc, afterOption>>

\* WithHTTPClient(h)(c): c.httpClient = h
ApplyWithHTTPClient(h) ==
    /\ httpClient' = WithHTTPClient(h)
    /\ UNCHANGED <<cfg, baseURL, lim, retired, pc, afterOption>>

\* WithRetryConfig(config)(c): c.retryConfig = config
ApplyWithRetryConfig(config) ==
    /\ cfg' \in TornStruct(cfg, WithRetryConfig(config))
    /\ UNCHANGED <<baseURL, httpClient, lim, retired, pc, afterOption>>

\* WithRateLimit(rps)(c): c.rateLimiter = rate.NewLimiter(rps, int(rps)).  A
\* goroutine inside Wait stays with the limiter it called, which goes on
\* as it was: only the client's pointer is set
ApplyWithRateLimit(rps) ==
    /\ lim' = WithRateLimit(rps)
    /\ retired' = IF lim.waiters = <<>> THEN retired ELSE retired \cup {lim}
    /\ pc' = [p \in Procs |-> IF pc[p] = "waiting" THEN "orphaned" ELSE pc[p]]
    /\ UNCHANGED <<configVars, afterOption>>

\* some option is applied
ApplyOption ==
    \/ ApplyWithBaseURL(LateBaseURL)
    \/ ApplyWithHTTPClient(LateHTTPClient)
    \/ ApplyWithRetryConfig(LateRetryConfig)
    \/ ApplyWithRateLimit(LateRate)

(***************************************************************************)
(* Specification of a client that is reconfigured in use: two goroutines   *)
(* issue two dispatches through a client built with WithRateLimit(2),      *)
(* while options are applied to it.  Time is let pass only while a         *)
(* goroutine is inside Wait, until its token is due: on the limiter the    *)
(* client points to, or on the one it called and WithRateLimit replaced.   *)
(***************************************************************************)
InitOpt ==
    /\ cfg = [DefaultRetryConfig EXCEPT !.MaxRetries = 1]
    /\ lim = WithRateLimit(Frac(2, 1))
    /\ retired = {}
    /\ NewClient(<<>>, <<>>)
    /\ now = 0
    /\ started = MaxDispatches - 2
    /\ acquired = MaxDispatches - 2
    /\ QuietProcs(Procs)

NextOpt ==
    \/ \E p \in Procs : Start(p)
    \/ \E p \in Procs : WaitBegin(p)
    \/ \E p \in Procs : WaitWake(p)
    \/ /\ \E p \in Procs : pc[p] \in {"waiting", "orphaned"}
       /\ Tick
    \/ \E p \in Procs : TimerFire(p)
    \/ \E p \in Procs : BackoffElapsed(p)
    \/ \E p \in Procs : \E o \in {Resp(200), Resp(500)} : Receive(p, o)
    \/ ApplyWithBaseURL(LateBaseURL)
    \/ ApplyWithHTTPClient(LateHTTPClient)
    \/ ApplyWithRetryConfig(LateRetryConfig)
    \/ ApplyWithRateLimit(LateRate)

SpecOpt == InitOpt /\ [][NextOpt]_vars

(***************************************************************************)
(* What the claims speak of, stated without the operators of the model of  *)
(* the code.                                                               *)
(***************************************************************************)
Last(h) == h[Len(h)]

\* a transport failure, a status >= 500 or status 429
RetryableFailure(o) == o.kind # "resp" \/ o.status >= 500 \/ o.status = 429

\* the server answered status 500 on the first k calls and 200 on the next
FailsThenSucceeds(h, k) ==
    /\ Len(h) = k + 1
    /\ \A i \in 1..k : h[i] = Resp(500)
    /\ h[k + 1] = Resp(200)

\* the server answered status 500 on every call so far
OnlyFails(h) == \A i \in 1..Len(h) : h[i] = Resp(500)

\* C1: with no cancellation, a server that answers 500 on the first
\* k < MaxRetries calls and 200 afterwards makes the dispatch return the
\* 200 response after exactly k+1 calls of httpClient.Do: the dispatch does
\* not give up while the server still fails, and stops at the success.
C1_RetryThenSuccess ==
    \A p \in Procs :
        ~ctxDone[p] =>
            /\ \A k \in 0..(cfg.MaxRetries - 1) :
                  FailsThenSucceeds(history[p], k) =>
                      /\ pc[p] = "done"
                      /\ result[p] = RespResult(200)
                      /\ calls[p] = k + 1
            /\ (/\ history[p] # <<>>
                /\ OnlyFails(history[p])
                /\ Len(history[p]) <= cfg.MaxRetries)
               => (pc[p] \in {"backoff", "inflight"} /\ result[p] = NoResult)

C1_Witness ==
    \E p \in Procs :
        /\ pc[p] = "done"
        /\ ~ctxDone[p]
        /\ cfg.MaxRetries = 2
        /\ FailsThenSucceeds(history[p], 1)
        /\ calls[p] = 2
        /\ result[p] = RespResult(200)

\* C2: a response whose status is below 500 and is not 429 ends the
\* dispatch at once: it is the last thing httpClient.Do returned, the
\* dispatch has returned that response, and no further call or backoff
\* follows (a server that always answers 400 is called exactly once).
C2_NoRetryBelow500 ==
    \A p \in Procs :
        \A i \in 1..Len(history[p]) :
            (/\ history[p][i].kind = "resp"
             /\ history[p][i].status < 500
             /\ history[p][i].status # 429)
            => /\ i = Len(history[p])
               /\ pc[p] = "done"
               /\ result[p] = RespResult(history[p][i].status)
               /\ calls[p] = i

C2_Witness ==
    \E p \in Procs :
        /\ pc[p] = "done"
        /\ history[p] = <<Resp(400)>>
        /\ calls[p] = 1
        /\ result[p] = RespResult(400)
        /\ cfg.MaxRetries >= 1

\* C3: when httpClient.Do ends in a transport failure, a status >= 500 or
\* status 429 at an attempt index below MaxRetries, the failure becomes
\* lastErr and the dispatch enters the backoff without returning; and a
\* dispatch that leaves the backoff while its cancellation signal has not
\* fired makes the next call.
C3_Step(p) ==
    /\ (/\ pc[p] = "inflight"
        /\ pc'[p] # "inflight"
        /\ RetryableFailure(Last(history'[p]))
        /\ attempt[p] < cfg.MaxRetries)
       => /\ lastErr'[p] = ErrOf(Last(history'[p]), attempt[p])
          /\ pc'[p] = "backoff"
          /\ result'[p] = NoResult
          /\ attempt'[p] = attempt[p] + 1
    /\ (pc[p] = "backoff" /\ pc'[p] # "backoff" /\ ~ctxDone[p])
       => /\ pc'[p] = "inflight"
          /\ calls'[p] = calls[p] + 1

C3_RetryableIsRetried == [][\A p \in Procs : C3_Step(p)]_vars

C3_Witness ==
    \E p \in Procs :
        /\ pc[p] = "inflight"
        /\ ~ctxDone[p]
        /\ calls[p] = 3
        /\ history[p] = <<Resp(429), NetErr>>
        /\ lastErr[p] = Err("neterr", 0, 1)

\* C4: with no cancellation, a dispatch all of whose calls end in a
\* retryable failure makes exactly MaxRetries+1 calls and then fails with
\* the error that reports MaxRetries+1 attempts and wraps the failure of
\* the last call; it never makes more than MaxRetries+1 calls.
C4_Exhaustion ==
    \A p \in Procs :
        /\ calls[p] <= cfg.MaxRetries + 1
        /\ (/\ pc[p] = "done"
            /\ ~ctxDone[p]
            /\ history[p] # <<>>
            /\ \A i \in 1..Len(history[p]) : RetryableFailure(history[p][i]))
           => /\ calls[p] = cfg.MaxRetries + 1
              /\ Len(history[p]) = cfg.MaxRetries + 1
              /\ result[p].kind = "exhausted"
              /\ result[p].attempts = cfg.MaxRetries + 1
              /\ result[p].cause =
                    IF Last(history[p]).kind = "resp"
                    THEN Err("status", Last(history[p]).status, cfg.MaxRetries)
                    ELSE Err("neterr", 0, cfg.MaxRetries)

C4_Witness ==
    \E p \in Procs :
        /\ pc[p] = "done"
        /\ ~ctxDone[p]
        /\ cfg.MaxRetries = 2
        /\ history[p] = <<Resp(500), NetErr, Resp(429)>>
        /\ result[p] = ExhaustedResult(3, Err("status", 429, 2))

\* C5: a dispatch whose context is done while a call of httpClient.Do is
\* in flight ends with the cancellation error, never with the
\* retry-exhaustion error, whichever attempt was in flight.
C5_DeadlineInFlight ==
    \A p \in Procs :
        (pc[p] = "done" /\ \E i \in 1..Len(history[p]) : history[p][i].kind = "ctxerr")
        => result[p].kind = "ctx"

\* C6: every attempt takes its own token from the limiter before it sends:
\* a dispatch never has made more calls than it has taken tokens, and a
\* dispatch that has returned after n calls has taken n tokens.
C6_TokenPerAttempt ==
    \A p \in Procs :
        /\ calls[p] <= taken[p]
        /\ pc[p] = "done" => taken[p] = calls[p]

(***************************************************************************)
(* The delay the specification states,                                     *)
(*     min(MaxDelay, InitialDelay * Multiplier^(a-1)),                     *)
(* as a mathematical value: X = num / den with den > 0.                    *)
(***************************************************************************)
StatedNum(c, a) ==
    BigMul(BigOf64(c.InitialDelay), BigPow(BigOfInt(c.Multiplier.num), a - 1))

StatedDen(c, a) == BigPow(BigOfInt(c.Multiplier.den), a - 1)

\* d is min(MaxDelay, X), X taken to the whole nanosecond (|d - X| < 1)
IsStatedDelay(c, a, d) ==
    LET num == StatedNum(c, a)
        den == StatedDen(c, a)
        max == BigOf64(c.MaxDelay)
        diff == BigAdd(BigMul(BigOf64(d), den), BigNeg(num))
    IN  IF BigCmp(num, BigMul(max, den)) >= 0
        THEN d = c.MaxDelay
        ELSE NatCmp(diff.mag, den.mag) < 0

\* C7: for every attempt a >= 1 the delay calculateDelay returns is
\* min(MaxDelay, InitialDelay * Multiplier^(a-1)); the delay before the
\* first retry is InitialDelay when InitialDelay <= MaxDelay.  Stated for
\* the configurations with InitialDelay >= 0, MaxDelay >= 0 and
\* Multiplier >= 1.
C7_DelayFormula ==
    (/\ attemptArg >= 1
     /\ ~IsNeg64(cfg.InitialDelay)
     /\ ~IsNeg64(cfg.MaxDelay)
     /\ cfg.Multiplier.num >= cfg.Multiplier.den)
    => /\ IsStatedDelay(cfg, attemptArg, delayOut)
       /\ (attemptArg = 1 /\ Le64(cfg.InitialDelay, cfg.MaxDelay))
          => delayOut = cfg.InitialDelay

\* C8: for InitialDelay >= 0, MaxDelay >= 0 and Multiplier >= 1 the delay
\* does not decrease from one attempt to the next (hence calculateDelay(a)
\* <= calculateDelay(b) for all 1 <= a < b), under int64 arithmetic.
C8_DelayMonotone ==
    (/\ attemptArg >= 2
     /\ ~IsNeg64(cfg.InitialDelay)
     /\ ~IsNeg64(cfg.MaxDelay)
     /\ cfg.Multiplier.num >= cfg.Multiplier.den)
    => Le64(delayPrev, delayOut)

\* C9: for every attempt a >= 1 and every retry configuration the delay
\* calculateDelay returns is at most MaxDelay.
C9_DelayAtMostMax == attemptArg >= 1 => Le64(delayOut, cfg.MaxDelay)

\* the product exceeds MaxDelay and MaxDelay is returned: 100ms * 2^5 * 2
\* against 5s
C9_Witness ==
    /\ attemptArg = 6
    /\ cfg.InitialDelay = Mul64(I64(100), Millisecond)
    /\ cfg.MaxDelay = Mul64(I64(5), Second)
    /\ cfg.Multiplier = Frac(2, 1)
    /\ delayOut = cfg.MaxDelay
    /\ delayPrev = Mul64(I64(3200), Millisecond)

\* C10: a bucket of capacity C that starts full and refills R tokens per
\* second has let N > C acquisitions complete only once (N - C) / R
\* seconds, that is (N - C) * TicksPerToken ticks, have elapsed; two
\* dispatches through a client built with WithRateLimit(1) take at least
\* one second.
C10_RateLowerBound ==
    /\ acquired > lim.burst => now >= (acquired - lim.burst) * TicksPerToken
    /\ (lim.limit = Frac(1, 1) /\ acquired >= 2) => now >= TicksPerToken

C10_Witness ==
    /\ lim.limit = Frac(1, 1)
    /\ lim.burst = 1
    /\ acquired = 3
    /\ now = 2 * TicksPerToken
    /\ \E p \in Procs : pc[p] = "done" /\ result[p] = RespResult(200)

(***************************************************************************)
(* C11.  A request that fails Validate is never dispatched: whichever API  *)
(* method is called, it returns the validation error, no token is taken    *)
(* from the limiter and httpClient.Do is never called.                     *)
(***************************************************************************)
C11_InvalidNeverDispatched ==
    \A p \in Procs :
        (method[p] # "" /\ Validate(method[p], req[p]) # Nil) =>
            /\ apiRet[p] = Returned(Zero, Validate(method[p], req[p]))
            /\ pc[p] = "idle"
            /\ calls[p] = 0
            /\ taken[p] = 0
            /\ history[p] = <<>>
            /\ acquired = started
            /\ lim \in {WithRateLimit(Frac(1, 1)),
                        Take(WithRateLimit(Frac(1, 1)), "p1", 0)}

\* GetViews was called with a year out of range and has returned the error
C11_Witness ==
    /\ method["p1"] = "GetViews"
    /\ req["p1"].Path # <<>>
    /\ req["p1"].Year = 1999
    /\ apiRet["p1"] = Returned(Zero, Errorf("year must be between 2000 and 2100"))
    /\ now > 0

(***************************************************************************)
(* C12.  For a response whose status is not 200 parseResponse never        *)
(* returns nil.  When the body was read it returns an APIError: the error  *)
(* decoded from the body when the body is an error object, otherwise an    *)
(* error with the status as code and the raw body text as description.     *)
(* When reading the body fails it returns the error of the read, which is  *)
(* not an APIError.                                                        *)
(***************************************************************************)
\* the places of the members of object j that name field k, in whatever
\* letter case
Names(j, k) == {i \in 1..Len(j.v) : EqualFold(j.v[i].k, k)}

\* the JSON value is an object (or null) that sets error_code, if at all, to
\* a number and description, if at all, to a string
IsErrorObject(j) ==
    \/ j.t = "null"
    \/ /\ j.t = "obj"
       /\ \A m \in Names(j, k_error_code) : j.v[m].v.t \in {"num", "null"}
       /\ \A m \in Names(j, k_description) : j.v[m].v.t \in {"str", "null"}

\* the value of the last member of object j that names field k and has a
\* value of type ty; zero when there is none
Member(j, k, ty, zero) ==
    LET of == IF j.t = "obj" THEN {m \in Names(j, k) : j.v[m].v.t = ty}
              ELSE {}
    IN  IF of = {} THEN zero
        ELSE j.v[CHOOSE m \in of : \A n \in of : n <= m].v.v

\* as stated: an APIError for every response whose status is not 200
C12_NonOKAlwaysStructuredError ==
    (parseOut # NotParsed /\ parseIn.resp.StatusCode # 200) =>
        parseOut.err.kind = "APIError"

C12_NonOKIsStructuredError ==
    (parseOut # NotParsed /\ parseIn.resp.StatusCode # 200) =>
        LET j == parseIn.resp.Body.json
        IN  /\ parseOut.err # Nil
            /\ parseOut.value = Zero
            /\ parseIn.resp.readErr =>
                  parseOut.err = Errorf("failed to read response body")
            /\ ~parseIn.resp.readErr =>
                  /\ parseOut.err.kind = "APIError"
                  /\ IsErrorObject(j) =>
                        parseOut.err =
                            APIError(Member(j, k_error_code, "num", 0),
                                     toValidUTF8(Member(j, k_description, "str",
                                                        Text(""))))
                  /\ ~IsErrorObject(j) =>
                        parseOut.err = APIError(parseIn.resp.StatusCode,
                                                parseIn.resp.Body.text)

\* the case of TestClientErrorHandling: status 400 with a decodable error
C12_Witness ==
    /\ parseIn # NoResponse
    /\ parseIn.resp.StatusCode = 400
    /\ ~parseIn.resp.readErr
    /\ parseIn.resp.Body.text =
          Text("{\"error_code\":400,\"description\":\"Bad Request\"}")
    /\ parseOut # NotParsed
    /\ parseOut.err = APIError(400, Text("Bad Request"))

(***************************************************************************)
(* C13.  For a status-200 response whose envelope has ok = false,          *)
(* parseResponse returns an APIError of code 0 whose description is the    *)
(* envelope's error field when the field is present, and the fallback text *)
(* only when it is absent.                                                 *)
(***************************************************************************)
C13_EnvelopeErrorField ==
    (/\ parseOut # NotParsed
     /\ parseIn.resp.StatusCode = 200
     /\ ~parseIn.resp.readErr
     /\ parseIn.resp.Body.json.t = "obj"
     /\ Member(parseIn.resp.Body.json, k_ok, "bool", TRUE) = FALSE) =>
        LET j == parseIn.resp.Body.json
        IN  parseOut.err =
                APIError(0, Member(j, k_error, "str",
                                   Text("API returned ok: false")))

(***************************************************************************)
(* C14.  Dispatches of one client proceed in parallel: while a dispatch is *)
(* suspended in a backoff delay or in a network call, every other          *)
(* goroutine can take its next step - enter doRequest, go through the      *)
(* limiter once a token is available for it, send, receive its response    *)
(* and return; no goroutine is held up by the state of another.            *)
(***************************************************************************)
C14_ParallelDispatches ==
    \A p, q \in Procs :
        (p # q /\ pc[p] \in {"backoff", "inflight"}) =>
            /\ (pc[q] \in {"idle", "done"} /\ started < MaxDispatches) =>
                  ENABLED Start(q)
            /\ pc[q] = "limiter" => ENABLED WaitBegin(q)
            /\ (pc[q] = "waiting" /\ Admits(lim, q, now)) => ENABLED WaitWake(q)
            /\ pc[q] = "backoff" => ENABLED (TimerFire(q) \/ BackoffElapsed(q))
            /\ (pc[q] = "inflight" /\ ~ctxDone[q]) => ENABLED Receive(q, Resp(200))

\* p1 sits in a backoff delay while p2 has taken a token, sent its request
\* and got its response
C14_Witness ==
    /\ pc["p1"] = "backoff"
    /\ pc["p2"] = "done"
    /\ result["p2"] = RespResult(200)
    /\ taken["p2"] = 1
    /\ calls["p2"] = 1
    /\ queued["p2"] > 0

(***************************************************************************)
(* C15.  No waiter on the limiter starves: a dispatch that waits is never  *)
(* pushed back by a later arrival (neither its place in the queue nor the  *)
(* time by which it is admitted grows), and every waiting dispatch whose   *)
(* context is not cancelled gets its token (for an admission due before    *)
(* the clock of the model stops).                                          *)
(***************************************************************************)
C15_NoStarvation ==
    /\ [][\A p \in Procs :
            (pc[p] = "waiting" /\ pc'[p] = "waiting") =>
                /\ Place(lim'.waiters, p) >= 1
                /\ Place(lim'.waiters, p) <= Place(lim.waiters, p)
                /\ Due(lim', p, now') <= Due(lim, p, now)]_vars
    /\ \A p \in Procs :
            (pc[p] = "waiting" /\ Due(lim, p, now) <= MaxTime) ~>
                (taken[p] >= 1 \/ ctxDone[p])

\* p2 waited and was admitted while p1, which came while p2 waited, is
\* still waiting
C15_Witness ==
    /\ pc["p1"] = "waiting"
    /\ ~ctxDone["p1"]
    /\ queued["p1"] = 2
    /\ taken["p2"] = 1
    /\ ~ctxDone["p2"]
    /\ queued["p2"] = 1

(***************************************************************************)
(* C16.  A dispatch whose context is cancelled while it waits for a token  *)
(* leaves the wait without a network call and without a token: the bucket  *)
(* and the dispatches that still wait are as if it had never waited (the   *)
(* token count is untouched, the others keep their order, and those that   *)
(* came after it are admitted one token earlier).                          *)
(***************************************************************************)
C16_CancelledWaitTakesNoToken ==
    [][\A p \in Procs :
          (pc[p] = "waiting" /\ pc'[p] = "done" /\ result'[p].kind = "ratelimit") =>
              /\ calls'[p] = 0
              /\ taken'[p] = 0
              /\ acquired' = acquired
              /\ lim'.tokens = lim.tokens
              /\ lim'.last = lim.last
              /\ lim'.waiters = SelectSeq(lim.waiters, LAMBDA x : x # p)
              /\ \A q \in Procs \ {p} :
                    pc[q] = "waiting" =>
                        Due(lim', q, now) =
                            IF Place(lim.waiters, q) > Place(lim.waiters, p)
                            THEN Due(lim, q, now) - TicksPerToken
                            ELSE Due(lim, q, now)]_vars

\* p2 waited first and was cancelled; p1, which came behind it, is now the
\* first to be admitted, before a token has accrued
C16_Witness ==
    /\ pc["p2"] = "done"
    /\ result["p2"].kind = "ratelimit"
    /\ queued["p2"] = 1
    /\ calls["p2"] = 0
    /\ pc["p1"] = "waiting"
    /\ queued["p1"] = 2
    /\ lim.waiters = <<"p1">>
    /\ Advance(lim, now) < TicksPerToken

(***************************************************************************)
(* What the converter is compared with: the source nodes that are to be    *)
(* kept, and the emitted nodes paired with the elements they come from.    *)
(***************************************************************************)
Converted == htmlDoc # NoDocument /\ convOut # NotConverted /\ ~convOut.isNil

\* the body element of the submitted document
SourceBody == htmlDoc.doc.Kids[1].Kids[2]

IsDropped(k) == k.Type = "element" /\ k.Data \in {"script", "style"}

Kept(kids) ==
    SelectSeq(kids, LAMBDA k : k.Type = "text" \/ (k.Type = "element" /\ ~IsDropped(k)))

\* an emitted text: a node with content only, or a bare string child
IsLeaf(o) == IF "String" \in DOMAIN o THEN TRUE ELSE o.Tag = ""

LeafText(o) == IF "String" \in DOMAIN o THEN o.String ELSE o.Content

\* the pairs <<source element, emitted element>> at all depths
RECURSIVE PairsOf(_, _)
PairsOf(src, out) ==
    LET kept == Kept(src)
        n == IF Len(kept) < Len(out) THEN Len(kept) ELSE Len(out)
    IN  UNION {IF kept[i].Type = "element" /\ ~IsLeaf(out[i])
               THEN {<<kept[i], out[i]>>} \cup PairsOf(kept[i].Kids, out[i].Children)
               ELSE {} : i \in 1..n}

\* the texts of the emitted nodes
RECURSIVE TextsOf(_)
TextsOf(out) ==
    UNION {IF IsLeaf(out[i]) THEN {LeafText(out[i])} ELSE TextsOf(out[i].Children) :
           i \in 1..Len(out)}

\* the tags of the emitted nodes
RECURSIVE TagsOf(_)
TagsOf(out) ==
    UNION {IF IsLeaf(out[i]) THEN {} ELSE {out[i].Tag} \cup TagsOf(out[i].Children) :
           i \in 1..Len(out)}

\* the stated supported set and the stated table
StatedSupported ==
    {"a", "aside", "blockquote", "br", "code", "em", "figcaption", "figure",
     "h3", "h4", "hr", "iframe", "img", "li", "ol", "p", "pre", "s", "strong",
     "u", "ul", "video"}

TagTable(t) ==
    IF t \in {"h1", "h2"} THEN "h3"
    ELSE IF t = "b" THEN "strong"
    ELSE IF t = "i" THEN "em"
    ELSE IF t \in {"div", "span"} THEN "p"
    ELSE IF t \in StatedSupported THEN t
    ELSE "p"

(***************************************************************************)
(* C17: mapTag follows the tag-mapping table for every tag name (h1, h2 to *)
(* h3, b to strong, i to em, div and span to p, a supported tag to itself, *)
(* anything else to p) and its result is always in the supported set; so   *)
(* every emitted element carries the table's tag for its source element.   *)
(***************************************************************************)
C17_MapTagFollowsTable ==
    /\ \A t \in TagNames \cup {"", "H1", "custom-tag"} :
          mapTag(t) = TagTable(t) /\ mapTag(t) \in StatedSupported
    /\ Converted =>
          /\ TagsOf(convOut.page.Content) \subseteq StatedSupported
          /\ \A pr \in PairsOf(SourceBody.Kids, convOut.page.Content) :
                pr[2].Tag = TagTable(pr[1].Data)

C17_Witness ==
    /\ Converted
    /\ \E pr \in PairsOf(SourceBody.Kids, convOut.page.Content) :
          pr[1].Data = "b" /\ pr[2].Tag = "strong"
    /\ \E pr \in PairsOf(SourceBody.Kids, convOut.page.Content) :
          pr[1].Data = "div" /\ pr[2].Tag = "p"

(***************************************************************************)
(* C18: script and style elements are dropped with their subtrees at any   *)
(* depth: at every level the emitted nodes stand, one for one and in       *)
(* order, for the source children that are text or an element other than   *)
(* script and style, and no emitted text comes from a script or a style.   *)
(***************************************************************************)
RECURSIVE Aligned(_, _)
Aligned(src, out) ==
    LET kept == Kept(src)
    IN  /\ Len(out) = Len(kept)
        /\ \A i \in 1..Len(kept) :
              IF kept[i].Type = "text"
              THEN IsLeaf(out[i]) /\ LeafText(out[i]) = kept[i].Data
              ELSE /\ ~IsLeaf(out[i])
                   /\ out[i].Tag = TagTable(kept[i].Data)
                   /\ Aligned(kept[i].Kids, out[i].Children)

C18_ScriptAndStyleDropped ==
    Converted =>
        /\ Aligned(SourceBody.Kids, convOut.page.Content)
        /\ TextsOf(convOut.page.Content) \cap {ScriptText, StyleText} = {}

\* a style element between two siblings inside an element
C18_Witness ==
    /\ Converted
    /\ \E i \in 1..Len(SourceBody.Kids) :
          LET e == SourceBody.Kids[i]
          IN  /\ e.Type = "element"
              /\ Len(e.Kids) = 3
              /\ e.Kids[1].Type = "text"
              /\ IsDropped(e.Kids[2])
              /\ e.Kids[3].Type = "element"
              /\ Len(convOut.page.Content[i].Children) = 2

(***************************************************************************)
(* C19: the attribute mapping of every emitted element has only the keys   *)
(* href and src, each with a value it has on the source element, and has   *)
(* every href and src of the source element; nothing else is kept.         *)
(***************************************************************************)
C19_OnlyHrefAndSrc ==
    Converted =>
        \A pr \in PairsOf(SourceBody.Kids, convOut.page.Content) :
            LET attr == pr[1].Attr
                kv == pr[2].Attrs.kv
            IN  /\ DOMAIN kv \subseteq {"href", "src"}
                /\ \A k \in DOMAIN kv :
                      \E i \in 1..Len(attr) : attr[i].Key = k /\ attr[i].Val = kv[k]
                /\ \A i \in 1..Len(attr) :
                      attr[i].Key \in {"href", "src"} => attr[i].Key \in DOMAIN kv

C19_Witness ==
    /\ Converted
    /\ \E pr \in PairsOf(SourceBody.Kids, convOut.page.Content) :
          /\ \E i \in 1..Len(pr[1].Attr) : pr[1].Attr[i].Key = "class"
          /\ \E i \in 1..Len(pr[1].Attr) : pr[1].Attr[i].Key = "src"
          /\ DOMAIN pr[2].Attrs.kv = {"src"}
          /\ pr[2].Attrs.kv["src"] = "pic.png"

(***************************************************************************)
(* C20: text and order are preserved: read in document order with their    *)
(* depth, the emitted nodes are the source nodes under body outside script *)
(* and style, every text an emitted leaf with exactly the source text      *)
(* (whitespace kept) and every element followed by its own children.       *)
(***************************************************************************)
RECURSIVE SourceOutline(_, _, _)
SourceOutline(kids, i, depth) ==
    IF i > Len(kids) THEN <<>>
    ELSE (IF kids[i].Type = "text"
          THEN <<[depth |-> depth, text |-> kids[i].Data]>>
          ELSE IF kids[i].Type = "element" /\ ~IsDropped(kids[i])
          THEN <<[depth |-> depth, element |-> TRUE]>>
                   \o SourceOutline(kids[i].Kids, 1, depth + 1)
          ELSE <<>>)
         \o SourceOutline(kids, i + 1, depth)

RECURSIVE EmittedOutline(_, _, _)
EmittedOutline(out, i, depth) ==
    IF i > Len(out) THEN <<>>
    ELSE (IF IsLeaf(out[i])
          THEN <<[depth |-> depth, text |-> LeafText(out[i])]>>
          ELSE <<[depth |-> depth, element |-> TRUE]>>
                   \o EmittedOutline(out[i].Children, 1, depth + 1))
         \o EmittedOutline(out, i + 1, depth)

C20_TextAndOrderPreserved ==
    Converted =>
        EmittedOutline(convOut.page.Content, 1, 0) = SourceOutline(SourceBody.Kids, 1, 0)

\* a text with surrounding whitespace after an element, inside an element
C20_Witness ==
    /\ Converted
    /\ \E i \in 1..Len(SourceBody.Kids) :
          LET e == SourceBody.Kids[i]
          IN  /\ e.Type = "element"
              /\ Len(e.Kids) = 2
              /\ e.Kids[1].Type = "element"
              /\ ~IsDropped(e.Kids[1])
              /\ e.Kids[2] = TextNode("  spaced  ")
              /\ convOut.page.Content[i].Children[2] = StringChild("  spaced  ")

(***************************************************************************)
(* C21: converting a document tree without a body element is not an       *)
(* error: the call returns a page with an empty content sequence and no    *)
(* error.                                                                  *)
(***************************************************************************)
HasNoBody(doc) ==
    \A i \in 1..Len(Preorder(doc)) :
        ~(Preorder(doc)[i].Type = "element" /\ Preorder(doc)[i].Data = "body")

C21_NoBodyIsNotAnError ==
    (htmlDoc # NoDocument /\ convOut # NotConverted /\ HasNoBody(htmlDoc.doc)) =>
        /\ convOut.err = Nil
        /\ ~convOut.isNil
        /\ convOut.page.Content = <<>>

(***************************************************************************)
(* C22: metadata is that of the first occurrence in document order: with   *)
(* no override, the title is the text of the first title element that has  *)
(* text and author name, author url and description are the content of the *)
(* first meta element of that name; later occurrences change nothing.      *)
(***************************************************************************)
RECURSIVE FirstTitle(_, _)
FirstTitle(nodes, i) ==
    IF i > Len(nodes) THEN ""
    ELSE IF nodes[i].Type = "element" /\ nodes[i].Data = "title" /\ Len(nodes[i].Kids) > 0
    THEN nodes[i].Kids[1].Data
    ELSE FirstTitle(nodes, i + 1)

RECURSIVE FirstMeta(_, _, _)
FirstMeta(nodes, name, i) ==
    IF i > Len(nodes) THEN ""
    ELSE IF /\ nodes[i].Type = "element"
            /\ nodes[i].Data = "meta"
            /\ \E k \in 1..Len(nodes[i].Attr) :
                  nodes[i].Attr[k].Key = "name" /\ nodes[i].Attr[k].Val = name
    THEN (LET a == nodes[i].Attr
              k == CHOOSE k \in 1..Len(a) : a[k].Key = "content"
          IN  a[k].Val)
    ELSE FirstMeta(nodes, name, i + 1)

C22_FirstOccurrenceWins ==
    (Converted /\ htmlDoc.opts.isNil) =>
        LET nodes == Preorder(htmlDoc.doc)
        IN  /\ convOut.page.Title = FirstTitle(nodes, 1)
            /\ convOut.page.AuthorName = FirstMeta(nodes, "author", 1)
            /\ convOut.page.AuthorURL = FirstMeta(nodes, "url", 1)
            /\ convOut.page.Description = FirstMeta(nodes, "description", 1)

(***************************************************************************)
(* C23: an override always wins: when the options supply an author name or *)
(* an author url, the returned page carries the supplied value whatever    *)
(* the meta elements of the document hold.                                 *)
(***************************************************************************)
C23_OverridePrecedence ==
    (Converted /\ ~htmlDoc.opts.isNil) =>
        /\ htmlDoc.opts.AuthorName # "" =>
              convOut.page.AuthorName = htmlDoc.opts.AuthorName
        /\ htmlDoc.opts.AuthorURL # "" =>
              convOut.page.AuthorURL = htmlDoc.opts.AuthorURL

\* the document names Ann and her url, the options name Bob and his
C23_Witness ==
    /\ Converted
    /\ FirstMeta(Preorder(htmlDoc.doc), "author", 1) = "Ann"
    /\ FirstMeta(Preorder(htmlDoc.doc), "url", 1) = "https://example.com/ann"
    /\ htmlDoc.opts = HTMLToPageOptions("Bob", "https://example.com/bob")
    /\ convOut.page.AuthorName = "Bob"
    /\ convOut.page.AuthorURL = "https://example.com/bob"

(***************************************************************************)
(* C27: GetViewsRequest.Validate accepts a request exactly when the path   *)
(* is not empty and year, month, day and hour are each 0 or within range   *)
(* (2000..2100, 1..12, 1..31, 0..24); otherwise it returns the error of    *)
(* the first violated rule in the order path, year, month, day, hour.      *)
(***************************************************************************)
UnsetOrWithin(v, lo, hi) == v = 0 \/ (lo <= v /\ v <= hi)

FirstViolatedRule(r) ==
    IF r.Path = <<>> THEN "path is required"
    ELSE IF ~UnsetOrWithin(r.Year, 2000, 2100) THEN "year must be between 2000 and 2100"
    ELSE IF ~UnsetOrWithin(r.Month, 1, 12) THEN "month must be between 1 and 12"
    ELSE IF ~UnsetOrWithin(r.Day, 1, 31) THEN "day must be between 1 and 31"
    ELSE IF ~UnsetOrWithin(r.Hour, 0, 24) THEN "hour must be between 0 and 24"
    ELSE ""

C27_GetViewsValidate ==
    (valOut # NotValidated /\ valIn.method = "GetViews") =>
        LET r == valIn.req
        IN  /\ valOut.err = Nil <=>
                  /\ r.Path # <<>>
                  /\ UnsetOrWithin(r.Year, 2000, 2100)
                  /\ UnsetOrWithin(r.Month, 1, 12)
                  /\ UnsetOrWithin(r.Day, 1, 31)
                  /\ UnsetOrWithin(r.Hour, 0, 24)
            /\ valOut.err # Nil => valOut.err.msg = FirstViolatedRule(r)

\* month and day are both out of range: the month is reported
C27_Witness ==
    /\ valOut # NotValidated
    /\ valIn.method = "GetViews"
    /\ valIn.req.Year = 2100
    /\ valIn.req.Month = 13
    /\ valIn.req.Day = 32
    /\ valOut.err = Errorf("month must be between 1 and 12")

(***************************************************************************)
(* C25: a status-200 response whose envelope has ok = true and no result   *)
(* member is a success without payload: parseResponse returns no error and *)
(* the caller's result keeps its zero value.                               *)
(***************************************************************************)
C25_NoPayloadSuccess ==
    (/\ parseIn # NoResponse
     /\ parseOut # NotParsed
     /\ ~parseIn.resp.readErr
     /\ parseIn.resp.StatusCode = 200
     /\ parseIn.resp.Body.json = JObj(<<Mem(k_ok, JBool(TRUE))>>)) =>
        /\ parseOut.err = Nil
        /\ parseOut.value = Zero

C25_Witness ==
    /\ parseIn # NoResponse
    /\ parseOut # NotParsed
    /\ parseIn.resp = Response(200, Body(Text("{\"ok\":true}"),
                                    JObj(<<Mem(k_ok, JBool(TRUE))>>)), FALSE)
    /\ parseIn.method = "GetViews"
    /\ parseOut.err = Nil

(***************************************************************************)
(* C24: round trip: a Node tree that is marshalled and unmarshalled comes  *)
(* back structurally equal: same tag, same attribute mapping, same         *)
(* children in the same order, same leaf text.                             *)
(***************************************************************************)
RECURSIVE SameNode(_, _)
SameNode(a, b) ==
    /\ a.Tag = b.Tag
    /\ a.Content = b.Content
    /\ a.Attrs.kv = b.Attrs.kv
    /\ Len(a.Children) = Len(b.Children)
    /\ \A i \in 1..Len(a.Children) : SameNode(a.Children[i], b.Children[i])

C24_RoundTrip ==
    nodeOut # NotDecoded =>
        ~nodeOut.back.err /\ SameNode(nodeOut.back.val, nodeIn)

(***************************************************************************)
(* C24 as amended: the round trip gives a structurally equal tree for      *)
(* every Node tree whose strings are valid UTF-8.                          *)
(***************************************************************************)
ValidString(s) == \A i \in 1..Len(s) : s[i] # InvalidByte

RECURSIVE ValidTree(_)
ValidTree(n) ==
    /\ ValidString(n.Tag)
    /\ ValidString(n.Content)
    /\ \A k \in DOMAIN n.Attrs.kv : ValidString(k) /\ ValidString(n.Attrs.kv[k])
    /\ \A i \in 1..Len(n.Children) : ValidTree(n.Children[i])

C24_RoundTripValidText ==
    (nodeOut # NotDecoded /\ ValidTree(nodeIn)) =>
        ~nodeOut.back.err /\ SameNode(nodeOut.back.val, nodeIn)

\* an element with an attribute, holding an element and a text with spaces
C24_Witness ==
    /\ nodeOut # NotDecoded
    /\ ValidTree(nodeIn)
    /\ nodeIn.Tag = <<"a">>
    /\ DOMAIN nodeIn.Attrs.kv = {k_href}
    /\ Len(nodeIn.Children) = 2
    /\ nodeIn.Children[1].Tag = <<"p">>
    /\ nodeIn.Children[2].Content = <<" ", "x", " ">>
    /\ nodeOut.back.val = nodeIn

(***************************************************************************)
(* C26: every error an API method returns names the phase that failed      *)
(* (validation, rate-limit wait, network, decode or application), on every *)
(* failure path.  A validation message names the field and the rule it     *)
(* broke, which is counted as naming validation.                           *)
(***************************************************************************)
ValidationMessages ==
    UNION {{Validate(m, r).msg : r \in Requests(m)} : m \in Methods} \ {""}

PhaseNamedBy(head) ==
    CASE head \in ValidationMessages -> "validation"
      [] head = "rate limiting failed" -> "rate-limit wait"
      [] head \in {"failed to create request", "request failed",
                   "request failed after %d attempts"} -> "network"
      [] head \in {"failed to read response body", "failed to unmarshal response",
                   "failed to unmarshal result"} -> "decode"
      [] head \in {"Telegraph API error", "Telegraph API error (code %d)"} ->
            "application"
      [] OTHER -> "none"

C26_ErrorNamesPhase ==
    \A p \in Procs :
        (apiRet[p].kind = "returned" /\ apiRet[p].err # Nil) =>
            PhaseNamedBy(ErrorChain(apiRet[p].err)[1]) # "none"

(***************************************************************************)
(* C28: no dispatch holds a lock across a suspension point: a dispatch     *)
(* that is suspended in the token wait, in a backoff delay or in a network *)
(* call holds the client's mutex neither in read nor in write mode.        *)
(***************************************************************************)
C28_NoLockWhileSuspended ==
    \A p \in Procs :
        pc[p] \in {"waiting", "backoff", "inflight"} =>
            p \notin muReaders /\ p \notin muWriters

(***************************************************************************)
(* C29: in every reachable state the token count of the limiter is between *)
(* 0 and its capacity: never negative, never above the burst, as stored    *)
(* and as refilled up to now; and a bucket nobody has taken from is full.  *)
(***************************************************************************)
C29_TokensWithinCapacity ==
    /\ 0 <= lim.tokens
    /\ lim.tokens <= lim.burst * TicksPerToken
    /\ 0 <= Advance(lim, now)
    /\ Advance(lim, now) <= lim.burst * TicksPerToken
    /\ acquired = 0 => Advance(lim, now) = lim.burst * TicksPerToken

\* the bucket was emptied by two acquisitions, a wait on it was cancelled,
\* and it has refilled to its capacity, where the refill stops
C29_Witness ==
    /\ acquired >= 2
    /\ \E p \in Procs :
          pc[p] = "done" /\ result[p].kind = "ratelimit" /\ queued[p] >= 1
    /\ lim.tokens = 0
    /\ Advance(lim, now) = lim.burst * TicksPerToken
    /\ lim.burst = 1

(***************************************************************************)
(* C30: a cancellation that fires while a dispatch sleeps in a backoff     *)
(* delay aborts the dispatch: the abort can be taken at once, whatever is  *)
(* left of the delay; while the delay has not passed it is the only step   *)
(* the dispatch takes; and it ends the dispatch with the context's error   *)
(* without another network call.                                           *)
(***************************************************************************)
C30_CancelDuringBackoff ==
    /\ [](\A p \in Procs :
            (pc[p] = "backoff" /\ ctxDone[p]) => ENABLED BackoffCancelled(p))
    /\ [][\A p \in Procs :
            (/\ pc[p] = "backoff"
             /\ ctxDone[p]
             /\ ~timerFired[p]
             /\ pc'[p] # "backoff") =>
                /\ pc'[p] = "done"
                /\ result'[p] \in {CtxResult(e) : e \in CtxErrors}
                /\ calls'[p] = calls[p]]_vars

\* a dispatch was cancelled in its first backoff delay and has ended with the
\* context's error before the delay passed
C30_Witness ==
    \E p \in Procs :
        /\ pc[p] = "done"
        /\ result[p] = CtxResult("canceled")
        /\ ctxDone[p]
        /\ ~timerFired[p]
        /\ calls[p] = 1

(***************************************************************************)
(* C31: decode failures and application errors are never retried: a        *)
(* status-200 response whose body is not an envelope, whose ok flag is not *)
(* true or whose result does not decode into the struct of the method      *)
(* makes the API method return an error at once, with no further call of   *)
(* httpClient.Do: a server that answers 200 on the first call is called    *)
(* exactly once although MaxRetries allows a retry.                        *)
(***************************************************************************)
\* the JSON value is an object whose ok, if present, is a boolean and whose
\* error, if present, is a string
IsEnvelope(j) ==
    /\ j.t = "obj"
    /\ \A m \in Names(j, k_ok) : j.v[m].v.t = "bool"
    /\ \A m \in Names(j, k_error) : j.v[m].v.t = "str"

\* the result of the envelope can be stored in the struct of method m
\* (the result that counts is the last one, as the map of an interface{}
\* holds it)
ResultDecodes(j, m) ==
    \/ Names(j, k_result) = {}
    \/ LET last == CHOOSE r \in Names(j, k_result) :
                        \A n \in Names(j, k_result) : n <= r
           r == valueInterface(j.v[last].v)
           fields == ResultFields(m)
       IN  \/ r.t = "null"
           \/ /\ r.t = "obj"
              /\ \A f \in 1..Len(fields) : \A n \in Names(r, fields[f].name) :
                     Fits(r.v[n].v, fields[f].type)

\* a body that carries no successful result for method m
BadPayload(b, m) ==
    \/ ~IsEnvelope(b.json)
    \/ Member(b.json, k_ok, "bool", FALSE) = FALSE
    \/ ~ResultDecodes(b.json, m)

C31_DecodeFailureNotRetried ==
    /\ [](\A p \in Procs :
            (/\ apiRet[p].kind = "returned"
             /\ result[p] = RespResult(200)
             /\ apiRet[p].err # Nil) =>
                /\ pc[p] = "done"
                /\ calls[p] = Len(history[p])
                /\ \A i \in 1..Len(history[p]) :
                      history[p][i] = Resp(200) <=> i = Len(history[p])
                /\ history[p][1] = Resp(200) => calls[p] = 1)
    /\ [][\A p \in Procs :
            \/ /\ apiRet'[p].kind = "returned"
               /\ apiRet'[p].err.kind \in {"error", "APIError"}
               /\ calls'[p] = calls[p]
               /\ pc'[p] = "done"
            \/ \A b \in Bodies :
                  ~(/\ result[p] = RespResult(200)
                    /\ MethodReturn(p, b, FALSE)
                    /\ BadPayload(b, method[p]))]_vars

C31_Witness ==
    \E p \in Procs :
        /\ cfg.MaxRetries >= 1
        /\ method[p] = "GetViews"
        /\ history[p] = <<Resp(200)>>
        /\ calls[p] = 1
        /\ apiRet[p].kind = "returned"
        /\ apiRet[p].err = Errorf("failed to unmarshal result")

(***************************************************************************)
(* C32: every node of the tree the converter returns, at any depth, is     *)
(* either a text leaf (no tag, no children, no attributes, a non-empty     *)
(* text) or an element (a tag of the supported set, no text); no node has  *)
(* both a tag and a text, and no node has neither.                         *)
(***************************************************************************)
RECURSIVE WellShaped(_)
WellShaped(out) ==
    \A i \in 1..Len(out) :
        IF "String" \in DOMAIN out[i]
        THEN out[i].String # ""
        ELSE \/ /\ out[i].Tag = ""
                /\ out[i].Children = <<>>
                /\ DOMAIN out[i].Attrs.kv = {}
                /\ out[i].Content # ""
             \/ /\ out[i].Tag \in StatedSupported
                /\ out[i].Content = ""
                /\ WellShaped(out[i].Children)

C32_NodeShape == Converted => WellShaped(convOut.page.Content)

\* an element of an unknown tag that holds an element, which holds an
\* element and a text
C32_Witness ==
    /\ Converted
    /\ \E pr \in PairsOf(SourceBody.Kids, convOut.page.Content) :
          /\ pr[1].Data = "section"
          /\ pr[2].Tag = "p"
          /\ Len(pr[2].Children) = 1
          /\ ~IsLeaf(pr[2].Children[1])
          /\ \E k \in 1..Len(pr[2].Children[1].Children) :
                pr[2].Children[1].Children[k] = StringChild("  spaced  ")
          /\ \E k \in 1..Len(pr[2].Children[1].Children) :
                ~IsLeaf(pr[2].Children[1].Children[k])

(***************************************************************************)
(* C33: the configuration of the client is immutable after construction:   *)
(* no step of any dispatch, in any interleaving of two goroutines, changes *)
(* the base URL, the HTTP client, the retry configuration or the limiter   *)
(* the client points to (its rate and its capacity); of the client only    *)
(* the state of the limiter (its tokens and its time stamps) changes       *)
(* across the attempts of a dispatch.  The configuration changes in no     *)
(* step but that of a caller who applies an option to the client.          *)
(***************************************************************************)
C33_ConfigImmutable ==
    [][\/ /\ baseURL' = baseURL
          /\ httpClient' = httpClient
          /\ cfg' = cfg
          /\ lim'.limit = lim.limit
          /\ lim'.burst = lim.burst
       \/ ApplyOption]_vars

\* both goroutines have been through the limiter, the second after it was
\* suspended in Wait; one has been answered 500 and has retried, to the URL
\* of its first attempt, while the other is in its call and every option
\* has been applied in between
C33_Witness ==
    /\ baseURL = LateBaseURL
    /\ httpClient = LateHTTPClient
    /\ cfg = LateRetryConfig
    /\ lim.burst = 1
    /\ \E p, q \in Procs :
          /\ p # q
          /\ pc[p] = "inflight" /\ calls[p] = 2
          /\ history[p] = <<Resp(500)>>
          /\ sent[p][2].URL = URLOf(DefaultBaseURL, <<>>)
          /\ pc[q] = "inflight" /\ calls[q] = 1
          /\ queued[q] = 1 /\ taken[q] = 1

(***************************************************************************)
(* C34: every attempt of one dispatch sends the same request: for a call   *)
(* with a request body, the first request and the request of every retry   *)
(* go to the same URL and carry the same, complete JSON text of the        *)
(* request data; a retry never carries an empty or a truncated body.       *)
(***************************************************************************)
C34_SameBodyEveryAttempt ==
    \A p \in Procs :
        (method[p] \notin {"", "GetPage"}) =>
            \A i \in 1..Len(sent[p]) :
                /\ sent[p][i].URL = sent[p][1].URL
                /\ sent[p][i].ContentLength = Len(Marshal(method[p], req[p]))
                /\ sent[p][i].Body = Marshal(method[p], req[p])

(***************************************************************************)
(* C35: every dispatch that has its token and has serialized its body      *)
(* makes at least one call of httpClient.Do, whatever MaxRetries is (zero  *)
(* and negative values included), and the error of retry exhaustion always *)
(* wraps a cause that is not nil and is the failure of the last call that  *)
(* was made.                                                               *)
(***************************************************************************)
C35_AtLeastOneCall ==
    \A p \in Procs :
        /\ (taken[p] >= 1 /\ pc[p] \in {"inflight", "backoff", "done"}) =>
              calls[p] >= 1
        /\ (pc[p] = "done" /\ result[p].kind = "exhausted") =>
              /\ result[p].cause # NoErr
              /\ history[p] # <<>>
              /\ result[p].cause.kind =
                    (IF Last(history[p]).kind = "resp" THEN "status"
                     ELSE Last(history[p]).kind)

(***************************************************************************)
(* C36: for every client built with WithRateLimit(rps), rps > 0 (rates     *)
(* below one request per second included), the bucket has a capacity of at *)
(* least one token, so that no dispatch is refused by the limiter for want *)
(* of capacity: a dispatch whose cancellation signal never fires gets its  *)
(* token and reaches the network.                                          *)
(***************************************************************************)
C36_FractionalRate ==
    /\ lim.burst >= 1
    /\ \A p \in Procs :
          (pc[p] = "done" /\ ~ctxDone[p]) => result[p].kind # "ratelimit"

(***************************************************************************)
(* C37: every dispatch terminates and never makes more than MaxRetries+1   *)
(* calls of httpClient.Do: provided every call returns or fails and every  *)
(* wait ends or is cancelled, a goroutine that is inside doRequest reaches *)
(* its return (for an admission due before the clock of the model stops).  *)
(***************************************************************************)
C37_Terminates ==
    /\ [](\A p \in Procs : calls[p] <= cfg.MaxRetries + 1)
    /\ \A p \in Procs :
          (/\ pc[p] \in {"limiter", "waiting", "backoff", "inflight"}
           /\ ~(pc[p] = "waiting" /\ Due(lim, p, now) > MaxTime)) ~>
              (pc[p] = "done" \/ (pc[p] = "waiting" /\ Due(lim, p, now) > MaxTime))

\* a dispatch that returned after it used up all its attempts
C37_Witness ==
    \E p \in Procs :
        /\ pc[p] = "done"
        /\ cfg.MaxRetries = MaxRetriesBound
        /\ calls[p] = MaxRetriesBound + 1
        /\ result[p].kind = "exhausted"

(***************************************************************************)
(* C38: a dispatch whose cancellation signal has fired before              *)
(* rateLimiter.Wait is called makes no call of httpClient.Do, takes no     *)
(* token from the limiter and fails with the context's error.              *)
(***************************************************************************)
C38_CancelledAtStart ==
    [][\A p \in Procs :
          (pc[p] = "limiter" /\ ctxDone[p] /\ pc'[p] # "limiter") =>
              /\ pc'[p] = "done"
              /\ calls'[p] = 0
              /\ taken'[p] = 0
              /\ lim' = lim
              /\ result'[p] \in {RateLimitResult(e) : e \in CtxErrors}]_vars

\* a dispatch started with a cancelled context has returned the context's
\* error although the bucket had a token for it and nobody was waiting
C38_Witness ==
    \E p \in Procs :
        /\ pc[p] = "done"
        /\ ctxDone[p]
        /\ result[p] = RateLimitResult("canceled")
        /\ calls[p] = 0
        /\ taken[p] = 0
        /\ queued[p] = 0
        /\ lim.waiters = <<>>
        /\ Advance(lim, now) >= TicksPerToken

(***************************************************************************)
(* C39: every response body the transport hands out is closed exactly     *)
(* once.  No body is ever closed twice and a failed call has no body to    *)
(* close; a response with a retryable status is closed by doRequest when   *)
(* it is received, before the next attempt; and when the method has        *)
(* returned, every response of its dispatch has been closed once, the one  *)
(* handed to parseResponse included.                                       *)
(***************************************************************************)
C39_BodyClosedOnce ==
    \A p \in Procs :
        /\ Len(closes[p]) = Len(history[p])
        /\ \A i \in 1..Len(history[p]) :
              /\ closes[p][i] <= 1
              /\ history[p][i].kind # "resp" => closes[p][i] = 0
              /\ (history[p][i].kind = "resp" /\ Retryable(history[p][i])) =>
                     closes[p][i] = 1
              /\ (apiRet[p].kind = "returned" /\ history[p][i].kind = "resp") =>
                     closes[p][i] = 1

\* a method returned after a 500 that was retried and a 200 that was parsed
C39_Witness ==
    \E p \in Procs :
        /\ apiRet[p].kind = "returned"
        /\ history[p] = <<Resp(500), Resp(200)>>
        /\ closes[p] = <<1, 1>>

(***************************************************************************)
(* C40: mapTag is idempotent: mapTag(mapTag(t)) = mapTag(t) for every tag  *)
(* name t, so every tag of a converted tree is mapped to itself and a      *)
(* second conversion would change no tag.                                  *)
(***************************************************************************)
C40_MapTagIdempotent ==
    /\ \A t \in TagNames \cup {"", "H1", "custom-tag"} :
          mapTag(mapTag(t)) = mapTag(t)
    /\ Converted =>
          \A t \in TagsOf(convOut.page.Content) : mapTag(t) = t

\* a converted document in which a tag was changed and a tag was replaced
\* by the default
C40_Witness ==
    /\ Converted
    /\ \E pr \in PairsOf(SourceBody.Kids, convOut.page.Content) :
          pr[1].Data = "b" /\ pr[2].Tag = "strong"
    /\ \E pr \in PairsOf(SourceBody.Kids, convOut.page.Content) :
          pr[1].Data = "section" /\ pr[2].Tag = "p"

====
